---- MODULE Spec2Model ----
(***************************************************************************)
(* mWHO pregnancy-risk calculator (src/src/App.tsx).                       *)
(*                                                                         *)
(* The file holds three drafts of the same component; this module models   *)
(* the first draft (lines 1-593): the severity reducer highestClass, the   *)
(* seven rule functions compute*, the question sets of GroupQuestions and  *)
(* the App component's state (group, answers, computed); and, of the      *)
(* second (lines 595-1143) and third (lines 1145-end) drafts, highestClass, *)
(* the rule functions, the question sets and the second draft's App.       *)
(*                                                                         *)
(* Strings are the source's strings.  The module is ASCII, so the few      *)
(* non-ASCII characters of the source are written as follows, one spelling *)
(* per character, so that distinct source strings stay distinct:           *)
(*    U+2013 EN DASH               as  -      ("II-III", "30-45%")         *)
(*    U+2264 LESS-THAN OR EQUAL    as  [le]   ("[le] mild residual")       *)
(*    U+2265 GREATER-THAN OR EQUAL as  [ge]                                *)
(*    U+2212 MINUS SIGN            as  [-]    ("+/[-]")                    *)
(*    U+2014 EM DASH               as  --                                  *)
(*    U+2193 DOWNWARDS ARROW       as  [v]    ("good/mildly[v]")           *)
(*    U+00B2 SUPERSCRIPT TWO       as  [2]    ("Turner ASI >25 mm[2]/m")   *)
(*    U+2191 UPWARDS ARROW         as  [^]                                 *)
(*    U+2011 NON-BREAKING HYPHEN   as  [nb-]                               *)
(* JavaScript's null and undefined are the strings "null" and "undefined". *)
(***************************************************************************)
EXTENDS Integers, Sequences, FiniteSets, TLC

VARIABLES
    ORDER,      \* the module-level array ORDER (line 84)
    group,      \* App state: useState<Group | null>
    answers,    \* App state: useState<Answers>
    computed,   \* App: the useMemo value { mwho, notes }
    fn,         \* rule-function call: which compute* is called
    arg,        \* rule-function call: the Answers object passed
    ret,        \* rule-function call: the returned { mwho, notes }, or NoRet
    hcIn,       \* highestClass calls: the operands <<a, b, c>>
    hcOut,      \* highestClass calls: the values returned so far
    log         \* history: the set(k, v) calls since the group was selected

vars == <<ORDER, group, answers, computed, fn, arg, ret, hcIn, hcOut, log>>

(***************************************************************************)
(* Bounds of the model.                                                    *)
(***************************************************************************)
\* at most this many keys are present in an Answers object
MaxAnswered == 4

(***************************************************************************)
(* JavaScript values.                                                      *)
(***************************************************************************)
Null == "null"
Undefined == "undefined"
\* ret before the call returns; afterwards ret = <<result>>
NoRet == <<>>

\* !x for the values that occur here: null, undefined and "" are falsy
Falsy(x) == x \in {Null, Undefined, ""}

\* x ?? y
Nullish(x, y) == IF x \in {Null, Undefined} THEN y ELSE x

\* Array.prototype.indexOf: 0-based, -1 when absent
indexOf(arr, x) ==
    IF \E i \in 1..Len(arr) : arr[i] = x
    THEN (CHOOSE i \in 1..Len(arr) : arr[i] = x /\ \A j \in 1..(i - 1) : arr[j] # x) - 1
    ELSE -1

\* arr[i] with a 0-based index: undefined outside the array
At(arr, i) == IF i \in 0..(Len(arr) - 1) THEN arr[i + 1] ELSE Undefined

\* Math.max
MathMax(x, y) == IF x >= y THEN x ELSE y

\* a.K on an Answers object: undefined when the key is absent
Get(a, k) == IF k \in DOMAIN a THEN a[k] ELSE Undefined

\* { ...a, [k]: v }
\* a spread that lets the earlier value of the key stand
PutKeepFirst(a, k, v) == [x \in (DOMAIN a) \cup {k} |-> IF x \in DOMAIN a THEN a[x] ELSE v]

Put(a, k, v) == [x \in (DOMAIN a) \cup {k} |-> IF x = k THEN v ELSE a[x]]

\* {}
EmptyAnswers == [x \in {} |-> ""]

\* the type MWHO
MWHO == {"I", "II", "II-III", "III", "IV"}

\* the initial value of ORDER
ORDER0 == <<"I", "II", "II-III", "III", "IV">>

(***************************************************************************)
(* The severity reducer.                                                   *)
(***************************************************************************)
\* mutant of highestClass: Math.min in place of Math.max
highestClassMin(a, b) ==
    IF Falsy(a) THEN b
    ELSE IF Falsy(b) THEN a
    ELSE LET i == indexOf(ORDER, a)
             j == indexOf(ORDER, b)
         IN  Nullish(At(ORDER, IF i <= j THEN i ELSE j), a)

\* mutant of highestClass: on a tie-free pair the first operand wins when it is III
highestClassFirst(a, b) ==
    IF Falsy(a) THEN b
    ELSE IF Falsy(b) THEN a
    ELSE IF a = "III" THEN a
    ELSE Nullish(At(ORDER, MathMax(indexOf(ORDER, a), indexOf(ORDER, b))), a)

\* mutant of highestClass: the index is one too far and nothing falls back
highestClassBeyond(a, b) ==
    IF Falsy(a) THEN b
    ELSE IF Falsy(b) THEN a
    ELSE At(ORDER, MathMax(indexOf(ORDER, a), indexOf(ORDER, b)) + 1)

highestClass(a, b) ==
    IF Falsy(a) THEN b
    ELSE IF Falsy(b) THEN a
    ELSE Nullish(At(ORDER, MathMax(indexOf(ORDER, a), indexOf(ORDER, b))), a)

\* the second draft's highestClass (lines 652-655): a local order, || a
highestClass2(a, b) ==
    IF Falsy(a) THEN b
    ELSE IF Falsy(b) THEN a
    ELSE LET order == <<"I", "II", "II-III", "III", "IV">>
             r == At(order, MathMax(indexOf(order, a), indexOf(order, b)))
         IN  IF Falsy(r) THEN a ELSE r

\* the third draft's highestClass (lines 1226-1231): a local order, no fallback
highestClass3(a, b) ==
    IF Falsy(a) THEN b
    ELSE IF Falsy(b) THEN a
    ELSE LET order == <<"I", "II", "II-III", "III", "IV">>
         IN  At(order, MathMax(indexOf(order, a), indexOf(order, b)))

(***************************************************************************)
(* Decision logic: the seven rule functions (lines 93-197).                *)
(***************************************************************************)
Result(m, n) == [mwho |-> m, notes |-> n]

\* mutant of lvefOver45: the PPCM answers are tested before RVfunction
lvefOver45PpcmFirst(a, notes) ==
    IF Get(a, "PPCM") = "> mild residual"
    THEN Result("IV", Append(notes, "PPCM with > mild residual LV impairment"))
    ELSE IF Get(a, "PPCM") = "[le] mild residual"
    THEN Result("III", Append(notes, "PPCM with [le] mild residual LV impairment"))
    ELSE IF Get(a, "RVfunction") = "significant" THEN Result("II-III", notes)
    ELSE Result("II-III", notes)

\* mutant of lvefOver45: the classes of the two PPCM branches are exchanged
lvefOver45Swapped(a, notes) ==
    IF Get(a, "RVfunction") = "significant" THEN Result("II-III", notes)
    ELSE IF Get(a, "PPCM") = "> mild residual"
    THEN Result("III", Append(notes, "PPCM with > mild residual LV impairment"))
    ELSE IF Get(a, "PPCM") = "[le] mild residual"
    THEN Result("IV", Append(notes, "PPCM with [le] mild residual LV impairment"))
    ELSE Result("II-III", notes)

\* the body of if (a.LVEF === ">45%") { ... } (lines 98-103)
lvefOver45(a, notes) ==
    IF Get(a, "RVfunction") = "significant" THEN Result("II-III", notes)
    ELSE IF Get(a, "PPCM") = "> mild residual"
    THEN Result("IV", Append(notes, "PPCM with > mild residual LV impairment"))
    ELSE IF Get(a, "PPCM") = "[le] mild residual"
    THEN Result("III", Append(notes, "PPCM with [le] mild residual LV impairment"))
    ELSE Result("II-III", notes)

\* mutant of computeVentricularPH: the LVEF/NYHA test comes before the PAH test
computeVentricularPHLvefFirst(a) ==
    LET notes == <<>> IN
    IF Get(a, "LVEF") = "<30%" \/ Get(a, "NYHA") = "III/IV" THEN Result("IV", notes)
    ELSE IF Get(a, "PAH") = "yes"
    THEN Result("IV", Append(notes, "Pulmonary arterial hypertension"))
    ELSE IF Get(a, "LVEF") = "30-45%" THEN Result("III", notes)
    ELSE IF Get(a, "LVEF") = ">45%" THEN lvefOver45(a, notes)
    ELSE Result(Null, notes)

\* mutant of computeVentricularPH: the LVEF bands are tested before NYHA
computeVentricularPHNyhaLast(a) ==
    LET notes == <<>> IN
    IF Get(a, "PAH") = "yes"
    THEN Result("IV", Append(notes, "Pulmonary arterial hypertension"))
    ELSE IF Get(a, "LVEF") = "<30%" THEN Result("IV", notes)
    ELSE IF Get(a, "LVEF") = "30-45%" THEN Result("III", notes)
    ELSE IF Get(a, "NYHA") = "III/IV" THEN Result("IV", notes)
    ELSE IF Get(a, "LVEF") = ">45%" THEN lvefOver45(a, notes)
    ELSE Result(Null, notes)

\* mutant of computeVentricularPH: RVfunction is tested outside the LVEF > 45% block
computeVentricularPHRvHoisted(a) ==
    LET notes == <<>> IN
    IF Get(a, "PAH") = "yes"
    THEN Result("IV", Append(notes, "Pulmonary arterial hypertension"))
    ELSE IF Get(a, "LVEF") = "<30%" \/ Get(a, "NYHA") = "III/IV" THEN Result("IV", notes)
    ELSE IF Get(a, "LVEF") = "30-45%" THEN Result("III", notes)
    ELSE IF Get(a, "RVfunction") = "significant" THEN Result("II-III", notes)
    ELSE IF Get(a, "LVEF") = ">45%" THEN lvefOver45(a, notes)
    ELSE Result(Null, notes)

\* mutant of computeVentricularPH: the PAH branch pushes its note without returning
computeVentricularPHPahFallsThrough(a) ==
    LET notes == IF Get(a, "PAH") = "yes" THEN <<"Pulmonary arterial hypertension">> ELSE <<>> IN
    IF Get(a, "LVEF") = "<30%" \/ Get(a, "NYHA") = "III/IV" THEN Result("IV", notes)
    ELSE IF Get(a, "LVEF") = "30-45%" THEN Result("III", notes)
    ELSE IF Get(a, "LVEF") = ">45%" THEN lvefOver45(a, notes)
    ELSE Result(Null, notes)

computeVentricularPH(a) ==
    LET notes == <<>> IN
    IF Get(a, "PAH") = "yes"
    THEN Result("IV", Append(notes, "Pulmonary arterial hypertension"))
    ELSE IF Get(a, "LVEF") = "<30%" \/ Get(a, "NYHA") = "III/IV" THEN Result("IV", notes)
    ELSE IF Get(a, "LVEF") = "30-45%" THEN Result("III", notes)
    ELSE IF Get(a, "LVEF") = ">45%" THEN lvefOver45(a, notes)
    ELSE Result(Null, notes)

\* mutant of reduce: the callback returns cur, so the last pick wins
RECURSIVE reduceLast(_, _)
reduceLast(picks, acc) ==
    IF picks = <<>> THEN acc ELSE reduceLast(Tail(picks), Head(picks))

\* picks.reduce((acc, cur) => highestClass(acc, cur), init)
RECURSIVE reduce(_, _)
reduce(picks, acc) ==
    IF picks = <<>> THEN acc ELSE reduce(Tail(picks), highestClass(acc, Head(picks)))

\* mutant of push: unshift, the new element goes to the front
pushFront(picks, cond, c) == IF cond THEN <<c>> \o picks ELSE picks

\* if (cond) picks.push(c)
\* a push that drops what was collected before
pushReplace(picks, cond, c) == IF cond THEN <<c>> ELSE picks

push(picks, cond, c) == IF cond THEN Append(picks, c) ELSE picks

\* mutant of computeCardiomyopathy: the two class-IV guards push III
computeCardiomyopathyNoIV(a) ==
    LET p0 == <<>>
        p1 == push(p0, Get(a, "HCMgenoPheno") = "+/[-]", "I")
        p2 == push(p1, Get(a, "HCMcomp") = "arrhythmic/moderate-hemodynamic", "III")
        p3 == push(p2, Get(a, "HCMcomp") = "severe-LVOT>=50-or-EF<50%", "III")
        p4 == push(p3, Get(a, "DCM_EF") = ">45%", "II-III")
        p5 == push(p4, Get(a, "DCM_EF") = "30-45%", "III")
        p6 == push(p5, Get(a, "DCM_EF") = "<30%/NYHAIII-IV", "III")
        p7 == push(p6, Get(a, "ARVC") = "low-risk", "II-III")
        p8 == push(p7, Get(a, "ARVC") = "moderate/severe", "III")
    IN  Result(reduce(p8, Null), <<>>)

\* mutant of computeCardiomyopathy: the reduction starts from "I", not from null
computeCardiomyopathyInitI(a) ==
    LET p0 == <<>>
        p1 == push(p0, Get(a, "HCMgenoPheno") = "+/[-]", "I")
        p2 == push(p1, Get(a, "HCMcomp") = "arrhythmic/moderate-hemodynamic", "III")
        p3 == push(p2, Get(a, "HCMcomp") = "severe-LVOT>=50-or-EF<50%", "IV")
        p4 == push(p3, Get(a, "DCM_EF") = ">45%", "II-III")
        p5 == push(p4, Get(a, "DCM_EF") = "30-45%", "III")
        p6 == push(p5, Get(a, "DCM_EF") = "<30%/NYHAIII-IV", "IV")
        p7 == push(p6, Get(a, "ARVC") = "low-risk", "II-III")
        p8 == push(p7, Get(a, "ARVC") = "moderate/severe", "III")
    IN  Result(reduce(p8, "I"), <<>>)

computeCardiomyopathy(a) ==
    LET p0 == <<>>
        p1 == push(p0, Get(a, "HCMgenoPheno") = "+/[-]", "I")
        p2 == push(p1, Get(a, "HCMcomp") = "arrhythmic/moderate-hemodynamic", "III")
        p3 == push(p2, Get(a, "HCMcomp") = "severe-LVOT>=50-or-EF<50%", "IV")
        p4 == push(p3, Get(a, "DCM_EF") = ">45%", "II-III")
        p5 == push(p4, Get(a, "DCM_EF") = "30-45%", "III")
        p6 == push(p5, Get(a, "DCM_EF") = "<30%/NYHAIII-IV", "IV")
        p7 == push(p6, Get(a, "ARVC") = "low-risk", "II-III")
        p8 == push(p7, Get(a, "ARVC") = "moderate/severe", "III")
    IN  Result(reduce(p8, Null), <<>>)

\* mutant of raise: m = c, the latest matching guard wins
raiseAssign(m, cond, c) == IF cond THEN c ELSE m

\* if (cond) m = highestClass(m, c)
raise(m, cond, c) == IF cond THEN highestClass(m, c) ELSE m

\* mutant of computeValvular: MVP_present = yes gives I whatever MR_sev is
computeValvularMvpAlone(a) ==
    LET m0 == Null
        n0 == <<>>
        m1 == raise(m0, Get(a, "PS_sev") = "mild", "I")
        m2 == raise(m1, Get(a, "PS_sev") = "moderate/severe", "II-III")
        n2 == push(n0, Get(a, "PS_sev") = "moderate/severe",
                   "Moderate/severe PS -- confirm gradients and RV pressure")
        m3 == raise(m2, Get(a, "MS") = "moderate", "III")
        m4 == raise(m3, Get(a, "MS") = "severe", "IV")
        m5 == raise(m4, Get(a, "AS") = "severe-asymptomatic", "III")
        m6 == raise(m5, Get(a, "AS") = "severe-symptomatic", "IV")
        m7 == raise(m6, Get(a, "MR_sev") = "severe" \/ Get(a, "AR_sev") = "severe", "III")
        m8 == raise(m7, Get(a, "MR_sev") = "moderate" \/ Get(a, "AR_sev") = "moderate", "II-III")
        m9 == raise(m8, Get(a, "MVP_present") = "yes", "I")
        n10 == push(n2, Get(a, "MechanicalValve") = "well-controlled",
                    "Mechanical valve on stable anticoagulation")
        m10 == raise(m9, Get(a, "MechanicalValve") = "well-controlled", "III")
        n11 == push(n10, Get(a, "MechanicalValve") = "unstable/complicated",
                    "Mechanical valve with complications/unstable anticoagulation")
        m11 == raise(m10, Get(a, "MechanicalValve") = "unstable/complicated", "III")
    IN  Result(m11, n11)

computeValvular(a) ==
    LET m0 == Null
        n0 == <<>>
        m1 == raise(m0, Get(a, "PS_sev") = "mild", "I")
        m2 == raise(m1, Get(a, "PS_sev") = "moderate/severe", "II-III")
        n2 == push(n0, Get(a, "PS_sev") = "moderate/severe",
                   "Moderate/severe PS -- confirm gradients and RV pressure")
        m3 == raise(m2, Get(a, "MS") = "moderate", "III")
        m4 == raise(m3, Get(a, "MS") = "severe", "IV")
        m5 == raise(m4, Get(a, "AS") = "severe-asymptomatic", "III")
        m6 == raise(m5, Get(a, "AS") = "severe-symptomatic", "IV")
        m7 == raise(m6, Get(a, "MR_sev") = "severe" \/ Get(a, "AR_sev") = "severe", "III")
        m8 == raise(m7, Get(a, "MR_sev") = "moderate" \/ Get(a, "AR_sev") = "moderate", "II-III")
        m9 == raise(m8, Get(a, "MVP_present") = "yes"
                        /\ (Get(a, "MR_sev") = "none/trace" \/ Get(a, "MR_sev") = "mild"), "I")
        n10 == push(n2, Get(a, "MechanicalValve") = "well-controlled",
                    "Mechanical valve on stable anticoagulation")
        m10 == raise(m9, Get(a, "MechanicalValve") = "well-controlled", "III")
        n11 == push(n10, Get(a, "MechanicalValve") = "unstable/complicated",
                    "Mechanical valve with complications/unstable anticoagulation")
        m11 == raise(m10, Get(a, "MechanicalValve") = "unstable/complicated", "III")
    IN  Result(m11, n11)

computeCongenital(a) ==
    LET m0 == Null
        m1 == raise(m0, Get(a, "SimpleRepaired") = "yes", "I")
        m2 == raise(m1, Get(a, "ASDVSDunoperated") = "yes", "II")
        m3 == raise(m2, Get(a, "ToFgood") = "yes", "II")
        m4 == raise(m3, Get(a, "TGAarterialSwitchGood") = "yes", "II")
        m5 == raise(m4, Get(a, "AVSDrepairedGood") = "yes", "II-III")
        m6 == raise(m5, Get(a, "Ebstein") = "uncomplicated", "II-III")
        m7 == raise(m6, Get(a, "Ebstein") = "complicated", "III")
        m8 == raise(m7, Get(a, "SystemicRV") = "good/mildly-decreased", "III")
        m9 == raise(m8, Get(a, "SystemicRV") = "moderate/severely-decreased", "IV")
        m10 == raise(m9, Get(a, "Fontan") = "uncomplicated", "III")
        m11 == raise(m10, Get(a, "Fontan") = "complicated", "IV")
        m12 == raise(m11, Get(a, "Cyanotic") = "unrepaired-non-eisenmenger", "III")
        m13 == raise(m12, Get(a, "Cyanotic") = "eisenmenger", "IV")
    IN  Result(m13, <<>>)

\* mutant of computeAortopathy: a stable prior dissection is class IV
computeAortopathyStableIV(a) ==
    LET m0 == Null
        n0 == <<>>
        m1 == raise(m0, Get(a, "NonHTADlt40") = "yes", "I")
        m2 == raise(m1, Get(a, "TurnerNoCVfeatures") = "yes", "II")
        m3 == raise(m2, Get(a, "HTADnoDilation_or_BAVlt45_or_repairedCoA") = "yes", "II-III")
        m4 == raise(m3, Get(a, "Marfan40to45") = "yes", "III")
        m5 == raise(m4, Get(a, "BAV45to50") = "yes", "III")
        m6 == raise(m5, Get(a, "TurnerASI20to25") = "yes", "III")
        m7 == raise(m6, Get(a, "OtherAortaLt50") = "yes", "III")
        m8 == raise(m7, Get(a, "MarfanGt45") = "yes", "IV")
        n8 == push(n0, Get(a, "MarfanGt45") = "yes", "Marfan/HTAD aortic diameter >45 mm")
        m9 == raise(m8, Get(a, "BAVGt50") = "yes", "IV")
        n9 == push(n8, Get(a, "BAVGt50") = "yes", "BAV aortic diameter >50 mm")
        m10 == raise(m9, Get(a, "TurnerASIgt25") = "yes", "IV")
        n10 == push(n9, Get(a, "TurnerASIgt25") = "yes", "Turner ASI >25 mm^2/m")
        m11 == raise(m10, Get(a, "SevereRecoA_or_vEDS_or_PriorDissectionGrowing") = "yes", "IV")
        n11 == push(n10, Get(a, "SevereRecoA_or_vEDS_or_PriorDissectionGrowing") = "yes",
                    "Severe (re)CoA / vEDS / prior dissection with growth")
        m12 == raise(m11, Get(a, "PriorDissectionStable") = "yes", "IV")
    IN  Result(m12, n11)

computeAortopathy(a) ==
    LET m0 == Null
        n0 == <<>>
        m1 == raise(m0, Get(a, "NonHTADlt40") = "yes", "I")
        m2 == raise(m1, Get(a, "TurnerNoCVfeatures") = "yes", "II")
        m3 == raise(m2, Get(a, "HTADnoDilation_or_BAVlt45_or_repairedCoA") = "yes", "II-III")
        m4 == raise(m3, Get(a, "Marfan40to45") = "yes", "III")
        m5 == raise(m4, Get(a, "BAV45to50") = "yes", "III")
        m6 == raise(m5, Get(a, "TurnerASI20to25") = "yes", "III")
        m7 == raise(m6, Get(a, "OtherAortaLt50") = "yes", "III")
        m8 == raise(m7, Get(a, "MarfanGt45") = "yes", "IV")
        n8 == push(n0, Get(a, "MarfanGt45") = "yes", "Marfan/HTAD aortic diameter >45 mm")
        m9 == raise(m8, Get(a, "BAVGt50") = "yes", "IV")
        n9 == push(n8, Get(a, "BAVGt50") = "yes", "BAV aortic diameter >50 mm")
        m10 == raise(m9, Get(a, "TurnerASIgt25") = "yes", "IV")
        n10 == push(n9, Get(a, "TurnerASIgt25") = "yes", "Turner ASI >25 mm^2/m")
        m11 == raise(m10, Get(a, "SevereRecoA_or_vEDS_or_PriorDissectionGrowing") = "yes", "IV")
        n11 == push(n10, Get(a, "SevereRecoA_or_vEDS_or_PriorDissectionGrowing") = "yes",
                    "Severe (re)CoA / vEDS / prior dissection with growth")
        m12 == raise(m11, Get(a, "PriorDissectionStable") = "yes", "III")
    IN  Result(m12, n11)

\* mutant of computeArrhythmia: sustained VT is class IV
computeArrhythmiaVTIV(a) ==
    LET m0 == Null
        m1 == raise(m0, Get(a, "IsolatedEctopy") = "yes", "I")
        m2 == raise(m1, Get(a, "SVTorPacemaker") = "yes", "II")
        m3 == raise(m2, Get(a, "InheritedLowRisk") = "yes", "II-III")
        m4 == raise(m3, Get(a, "InheritedHighRisk") = "yes", "III")
        m5 == raise(m4, Get(a, "SustainedVT") = "yes", "IV")
    IN  Result(m5, <<>>)

\* mutant of computeArrhythmia: if (a.IsolatedEctopy), any answer counts
computeArrhythmiaAnyAnswer(a) ==
    LET m0 == Null
        m1 == raise(m0, ~Falsy(Get(a, "IsolatedEctopy")), "I")
        m2 == raise(m1, Get(a, "SVTorPacemaker") = "yes", "II")
        m3 == raise(m2, Get(a, "InheritedLowRisk") = "yes", "II-III")
        m4 == raise(m3, Get(a, "InheritedHighRisk") = "yes", "III")
        m5 == raise(m4, Get(a, "SustainedVT") = "yes", "III")
    IN  Result(m5, <<>>)

computeArrhythmia(a) ==
    LET m0 == Null
        m1 == raise(m0, Get(a, "IsolatedEctopy") = "yes", "I")
        m2 == raise(m1, Get(a, "SVTorPacemaker") = "yes", "II")
        m3 == raise(m2, Get(a, "InheritedLowRisk") = "yes", "II-III")
        m4 == raise(m3, Get(a, "InheritedHighRisk") = "yes", "III")
        m5 == raise(m4, Get(a, "SustainedVT") = "yes", "III")
    IN  Result(m5, <<>>)

\* mutant of computeCoronaryOther: the CancerTherapyCVtox guard is missing
computeCoronaryOtherNoCancer(a) ==
    LET m0 == Null
        m1 == raise(m0, Get(a, "SCAD") = "yes", "III")
        m2 == raise(m1, Get(a, "PriorIschaemia") = "yes", "III")
        m3 == raise(m2, Get(a, "PriorAPOhosp") = "yes", "III")
    IN  Result(m3, <<>>)

\* mutant of computeCoronaryOther: m starts at class I, not null
computeCoronaryOtherInitI(a) ==
    LET m0 == "I"
        m1 == raise(m0, Get(a, "SCAD") = "yes", "III")
        m2 == raise(m1, Get(a, "PriorIschaemia") = "yes", "III")
        m3 == raise(m2, Get(a, "PriorAPOhosp") = "yes", "III")
        m4 == raise(m3, Get(a, "CancerTherapyCVtox") = "yes", "III")
    IN  Result(m4, <<>>)

computeCoronaryOther(a) ==
    LET m0 == Null
        m1 == raise(m0, Get(a, "SCAD") = "yes", "III")
        m2 == raise(m1, Get(a, "PriorIschaemia") = "yes", "III")
        m3 == raise(m2, Get(a, "PriorAPOhosp") = "yes", "III")
        m4 == raise(m3, Get(a, "CancerTherapyCVtox") = "yes", "III")
    IN  Result(m4, <<>>)

(***************************************************************************)
(* The second draft's computeValvular (lines 724-756) and computeCongenital *)
(* (lines 758-774), which call the second draft's highestClass.            *)
(***************************************************************************)
\* if (cond) m = highestClass(m, c), in the second draft
raise2(m, cond, c) == IF cond THEN highestClass2(m, c) ELSE m

computeValvular2(a) ==
    LET m0 == Null
        n0 == <<>>
        m1 == raise2(m0, Get(a, "PS_sev") = "mild", "I")
        m2 == raise2(m1, Get(a, "PS_sev") = "moderate/severe", "II-III")
        n2 == push(n0, Get(a, "PS_sev") = "moderate/severe",
                   "Moderate/severe PS -- confirm gradients & RV pressure")
        m3 == raise2(m2, Get(a, "MS") = "moderate", "III")
        m4 == raise2(m3, Get(a, "MS") = "severe", "IV")
        m5 == raise2(m4, Get(a, "AS") = "severe-asymptomatic", "III")
        m6 == raise2(m5, Get(a, "AS") = "severe-symptomatic", "IV")
        m7 == raise2(m6, Get(a, "MR_sev") = "severe" \/ Get(a, "AR_sev") = "severe", "III")
        m8 == raise2(m7, Get(a, "MR_sev") = "moderate" \/ Get(a, "AR_sev") = "moderate", "II-III")
        mvp == Get(a, "MVP_present") = "yes"
        noSigMR == Get(a, "MR_sev") = "none/trace" \/ Get(a, "MR_sev") = "mild"
        m9 == raise2(m8, mvp /\ noSigMR, "I")
        n9 == push(n2, mvp /\ ~noSigMR
                       /\ (Falsy(Get(a, "MR_sev")) \/ Get(a, "MR_sev") = "unknown"),
                   "MVP present but MR severity unknown -- cannot assume class I")
        n10 == push(n9, Get(a, "MechanicalValve") = "well-controlled",
                    "Mechanical valve on stable anticoagulation")
        m10 == raise2(m9, Get(a, "MechanicalValve") = "well-controlled", "III")
        n11 == push(n10, Get(a, "MechanicalValve") = "unstable/complicated",
                    "Mechanical valve with complications/unstable anticoagulation")
        m11 == raise2(m10, Get(a, "MechanicalValve") = "unstable/complicated", "III")
    IN  Result(m11, n11)

computeCongenital2(a) ==
    LET m0 == Null
        notes == <<>>
        m1 == raise2(m0, Get(a, "SimpleRepaired") = "yes", "I")
        m2 == raise2(m1, Get(a, "ASDVSDunoperated") = "yes", "II")
        m3 == raise2(m2, Get(a, "ToFgood") = "yes", "II")
        m4 == raise2(m3, Get(a, "TGAarterialSwitchGood") = "yes", "II")
        m5 == raise2(m4, Get(a, "AVSDrepairedGood") = "yes", "II-III")
        m6 == raise2(m5, Get(a, "Ebstein") = "uncomplicated", "II-III")
        m7 == raise2(m6, Get(a, "Ebstein") = "complicated", "III")
        m8 == raise2(m7, Get(a, "SystemicRV") = "good/mildly[v]", "III")
        m9 == raise2(m8, Get(a, "SystemicRV") = "moderate/severely[v]", "IV")
        m10 == raise2(m9, Get(a, "Fontan") = "uncomplicated", "III")
        m11 == raise2(m10, Get(a, "Fontan") = "complicated", "IV")
        m12 == raise2(m11, Get(a, "Cyanotic") = "unrepaired-non-eisenmenger", "III")
        m13 == raise2(m12, Get(a, "Cyanotic") = "eisenmenger", "IV")
    IN  Result(m13, notes)

(***************************************************************************)
(* The second draft's other rule functions (lines 697-722, 776-810).       *)
(***************************************************************************)
computeVentricularPH2(a) ==
    LET notes == <<>>
    IN  IF Get(a, "PAH") = "yes"
        THEN Result("IV", Append(notes, "Pulmonary arterial hypertension"))
        ELSE IF Get(a, "LVEF") = "<30%" \/ Get(a, "NYHA") = "III/IV" THEN Result("IV", notes)
        ELSE IF Get(a, "LVEF") = "30-45%" THEN Result("III", notes)
        ELSE IF Get(a, "LVEF") = ">45%"
        THEN IF Get(a, "RVfunction") = "significant" THEN Result("II-III", notes)
             ELSE IF Get(a, "PPCM") = "> mild residual"
             THEN Result("IV", Append(notes, "PPCM with > mild residual LV impairment"))
             ELSE IF Get(a, "PPCM") = "[le] mild residual"
             THEN Result("III", Append(notes, "PPCM with [le] mild residual LV impairment"))
             ELSE Result("II-III", notes)
        ELSE Result(Null, notes)

\* picks.reduce((acc,cur)=>highestClass(acc,cur), init) in the second draft
RECURSIVE reduce2(_, _)
reduce2(picks, acc) ==
    IF picks = <<>> THEN acc ELSE reduce2(Tail(picks), highestClass2(acc, Head(picks)))

computeCardiomyopathy2(a) ==
    LET p0 == <<>>
        p1 == push(p0, Get(a, "HCMgenoPheno") = "+/[-]", "I")
        p2 == push(p1, Get(a, "HCMcomp") = "arrhythmic/moderate-hemodynamic", "III")
        p3 == push(p2, Get(a, "HCMcomp") = "severe-LVOT>=50-or-EF<50%", "IV")
        p4 == push(p3, Get(a, "DCM_EF") = ">45%", "II-III")
        p5 == push(p4, Get(a, "DCM_EF") = "30-45%", "III")
        p6 == push(p5, Get(a, "DCM_EF") = "<30%/NYHAIII-IV", "IV")
        p7 == push(p6, Get(a, "ARVC") = "low-risk", "II-III")
        p8 == push(p7, Get(a, "ARVC") = "moderate/severe", "III")
    IN  Result(reduce2(p8, Null), <<>>)

computeAortopathy2(a) ==
    LET m0 == Null
        n0 == <<>>
        m1 == raise2(m0, Get(a, "NonHTADlt40") = "yes", "I")
        m2 == raise2(m1, Get(a, "TurnerNoCVfeatures") = "yes", "II")
        m3 == raise2(m2, Get(a, "HTADnoDilation_or_BAVlt45_or_repairedCoA") = "yes", "II-III")
        m4 == raise2(m3, Get(a, "Marfan40to45") = "yes", "III")
        m5 == raise2(m4, Get(a, "BAV45to50") = "yes", "III")
        m6 == raise2(m5, Get(a, "TurnerASI20to25") = "yes", "III")
        m7 == raise2(m6, Get(a, "OtherAortaLt50") = "yes", "III")
        m8 == raise2(m7, Get(a, "MarfanGt45") = "yes", "IV")
        n8 == push(n0, Get(a, "MarfanGt45") = "yes", "Severe Marfan/HTAD aortic dilation >45 mm")
        m9 == raise2(m8, Get(a, "BAVGt50") = "yes", "IV")
        n9 == push(n8, Get(a, "BAVGt50") = "yes", "Severe BAV aortic dilation >50 mm")
        m10 == raise2(m9, Get(a, "TurnerASIgt25") = "yes", "IV")
        n10 == push(n9, Get(a, "TurnerASIgt25") = "yes", "Turner ASI >25 mm[2]/m")
        m11 == raise2(m10, Get(a, "SevereRecoA_or_vEDS_or_PriorDissectionGrowing") = "yes", "IV")
        n11 == push(n10, Get(a, "SevereRecoA_or_vEDS_or_PriorDissectionGrowing") = "yes",
                    "Severe (re)CoA / vascular EDS / prior dissection with growth")
        m12 == raise2(m11, Get(a, "PriorDissectionStable") = "yes", "III")
    IN  Result(m12, n11)

computeArrhythmia2(a) ==
    LET m0 == Null
        notes == <<>>
        m1 == raise2(m0, Get(a, "IsolatedEctopy") = "yes", "I")
        m2 == raise2(m1, Get(a, "SVTorPacemaker") = "yes", "II")
        m3 == raise2(m2, Get(a, "InheritedLowRisk") = "yes", "II-III")
        m4 == raise2(m3, Get(a, "InheritedHighRisk") = "yes", "III")
        m5 == raise2(m4, Get(a, "SustainedVT") = "yes", "III")
    IN  Result(m5, notes)

computeCoronaryOther2(a) ==
    LET m0 == Null
        notes == <<>>
        m1 == raise2(m0, Get(a, "SCAD") = "yes", "III")
        m2 == raise2(m1, Get(a, "PriorIschaemia") = "yes", "III")
        m3 == raise2(m2, Get(a, "PriorAPOhosp") = "yes", "III")
        m4 == raise2(m3, Get(a, "CancerTherapyCVtox") = "yes", "III")
    IN  Result(m4, notes)

(***************************************************************************)
(* The third draft's rule functions (lines 1251-1399), which call the      *)
(* third draft's highestClass.                                             *)
(***************************************************************************)
\* if (cond) mwho = highestClass(mwho, c), in the third draft
raise3(m, cond, c) == IF cond THEN highestClass3(m, c) ELSE m

\* scores.reduce((acc, cur) => highestClass(acc, cur), init) in the third draft
RECURSIVE reduce3(_, _)
reduce3(scores, acc) ==
    IF scores = <<>> THEN acc ELSE reduce3(Tail(scores), highestClass3(acc, Head(scores)))

computeVentricularPH3(answers_) ==
    LET notes == <<>>
    IN  IF Get(answers_, "PAH") = "yes"
        THEN Result("IV", Append(notes, "Pulmonary arterial hypertension"))
        ELSE IF Get(answers_, "LVEF") = "<30%" \/ Get(answers_, "NYHA") = "III/IV"
        THEN Result("IV", notes)
        ELSE IF Get(answers_, "LVEF") = "30-45%" THEN Result("III", notes)
        ELSE IF Get(answers_, "LVEF") = ">45%"
        THEN IF Get(answers_, "RVfunction") = "significant" THEN Result("II-III", notes)
             ELSE IF Get(answers_, "PPCM") = "> mild residual"
             THEN Result("IV", Append(notes, "PPCM with > mild residual LV impairment"))
             ELSE IF Get(answers_, "PPCM") = "[le] mild residual"
             THEN Result("III", Append(notes, "PPCM with [le] mild residual LV impairment"))
             ELSE Result("II-III", notes)
        ELSE Result(Null, notes)

computeCardiomyopathy3(answers_) ==
    LET s0 == <<>>
        notes == <<>>
        s1 == push(s0, Get(answers_, "HCMgenoPheno") = "+/[-]", "I")
        s2 == push(s1, Get(answers_, "HCMcomp") = "arrhythmic/moderate-hemodynamic", "III")
        s3 == push(s2, Get(answers_, "HCMcomp") = "severe-LVOT>=50-or-EF<50%", "IV")
        s4 == push(s3, Get(answers_, "DCM_EF") = ">45%", "II-III")
        s5 == push(s4, Get(answers_, "DCM_EF") = "30-45%", "III")
        s6 == push(s5, Get(answers_, "DCM_EF") = "<30%/NYHAIII-IV", "IV")
        s7 == push(s6, Get(answers_, "ARVC") = "low-risk", "II-III")
        s8 == push(s7, Get(answers_, "ARVC") = "moderate/severe", "III")
    IN  Result(reduce3(s8, Null), notes)

computeValvular3(answers_) ==
    LET n0 == <<>>
        m0 == Null
        m1 == raise3(m0, Get(answers_, "PS") = "small/mild", "I")
        m2 == raise3(m1, Get(answers_, "MVP") = "no-sig-MR", "I")
        m3 == raise3(m2, Get(answers_, "MS") = "moderate", "III")
        m4 == raise3(m3, Get(answers_, "MS") = "severe", "IV")
        m5 == raise3(m4, Get(answers_, "AS") = "severe-asymptomatic", "III")
        m6 == raise3(m5, Get(answers_, "AS") = "severe-symptomatic", "IV")
        m7 == raise3(m6, Get(answers_, "LeftRegurg") = "severe", "III")
        m8 == raise3(m7, Get(answers_, "NativeTissue") = "mild-MS/mod-AS/mod-regurg", "II-III")
        n9 == push(n0, Get(answers_, "MechanicalValve") = "well-controlled",
                   "Mechanical valve on stable anticoagulation")
        m9 == raise3(m8, Get(answers_, "MechanicalValve") = "well-controlled", "III")
        n10 == push(n9, Get(answers_, "MechanicalValve") = "unstable/complicated",
                    "Mechanical valve with complications/unstable anticoagulation")
        m10 == raise3(m9, Get(answers_, "MechanicalValve") = "unstable/complicated", "III")
    IN  Result(m10, n10)

computeCongenital3(answers_) ==
    LET m0 == Null
        notes == <<>>
        m1 == raise3(m0, Get(answers_, "SimpleRepaired") = "yes", "I")
        m2 == raise3(m1, Get(answers_, "ASDVSDunoperated") = "yes", "II")
        m3 == raise3(m2, Get(answers_, "ToFgood") = "yes", "II")
        m4 == raise3(m3, Get(answers_, "TGAarterialSwitchGood") = "yes", "II")
        m5 == raise3(m4, Get(answers_, "AVSDrepairedGood") = "yes", "II-III")
        m6 == raise3(m5, Get(answers_, "Ebstein") = "uncomplicated", "II-III")
        m7 == raise3(m6, Get(answers_, "Ebstein") = "complicated", "III")
        m8 == raise3(m7, Get(answers_, "SystemicRV") = "good/mildly[v]", "III")
        m9 == raise3(m8, Get(answers_, "SystemicRV") = "moderate/severely[v]", "IV")
        m10 == raise3(m9, Get(answers_, "Fontan") = "uncomplicated", "III")
        m11 == raise3(m10, Get(answers_, "Fontan") = "complicated", "IV")
        m12 == raise3(m11, Get(answers_, "Cyanotic") = "unrepaired-non-eisenmenger", "III")
        m13 == raise3(m12, Get(answers_, "Cyanotic") = "eisenmenger", "IV")
    IN  Result(m13, notes)

computeAortopathy3(answers_) ==
    LET m0 == Null
        n0 == <<>>
        m1 == raise3(m0, Get(answers_, "NonHTADlt40") = "yes", "I")
        m2 == raise3(m1, Get(answers_, "TurnerNoCVfeatures") = "yes", "II")
        m3 == raise3(m2, Get(answers_, "HTADnoDilation_or_BAVlt45_or_repairedCoA") = "yes",
                     "II-III")
        m4 == raise3(m3, Get(answers_, "Marfan40to45") = "yes", "III")
        m5 == raise3(m4, Get(answers_, "BAV45to50") = "yes", "III")
        m6 == raise3(m5, Get(answers_, "TurnerASI20to25") = "yes", "III")
        m7 == raise3(m6, Get(answers_, "OtherAortaLt50") = "yes", "III")
        m8 == raise3(m7, Get(answers_, "MarfanGt45") = "yes", "IV")
        n8 == push(n0, Get(answers_, "MarfanGt45") = "yes",
                   "Severe Marfan/HTAD aortic dilation >45 mm")
        m9 == raise3(m8, Get(answers_, "BAVGt50") = "yes", "IV")
        n9 == push(n8, Get(answers_, "BAVGt50") = "yes", "Severe BAV aortic dilation >50 mm")
        m10 == raise3(m9, Get(answers_, "TurnerASIgt25") = "yes", "IV")
        n10 == push(n9, Get(answers_, "TurnerASIgt25") = "yes", "Turner ASI >25 mm[2]/m")
        m11 == raise3(m10, Get(answers_, "SevereRecoA_or_vEDS_or_PriorDissectionGrowing") = "yes",
                      "IV")
        n11 == push(n10, Get(answers_, "SevereRecoA_or_vEDS_or_PriorDissectionGrowing") = "yes",
                    "Severe (re)CoA / vascular EDS / prior dissection with growth")
        m12 == raise3(m11, Get(answers_, "PriorDissectionStable") = "yes", "III")
    IN  Result(m12, n11)

computeArrhythmia3(answers_) ==
    LET m0 == Null
        notes == <<>>
        m1 == raise3(m0, Get(answers_, "IsolatedEctopy") = "yes", "I")
        m2 == raise3(m1, Get(answers_, "SVTorPacemaker") = "yes", "II")
        m3 == raise3(m2, Get(answers_, "InheritedLowRisk") = "yes", "II-III")
        m4 == raise3(m3, Get(answers_, "InheritedHighRisk") = "yes", "III")
        m5 == raise3(m4, Get(answers_, "SustainedVT") = "yes", "III")
    IN  Result(m5, notes)

computeCoronaryOther3(answers_) ==
    LET m0 == Null
        notes == <<>>
        m1 == raise3(m0, Get(answers_, "SCAD") = "yes", "III")
        m2 == raise3(m1, Get(answers_, "PriorIschaemia") = "yes", "III")
        m3 == raise3(m2, Get(answers_, "PriorAPOhosp") = "yes", "III")
        m4 == raise3(m3, Get(answers_, "CancerTherapyCVtox") = "yes", "III")
    IN  Result(m4, notes)

(***************************************************************************)
(* Groups and questions (lines 200-472).                                   *)
(***************************************************************************)
GROUPS ==
    <<"Ventricular/PH/PPCM", "Cardiomyopathy", "Valvular", "Congenital",
      "Aortopathy", "Arrhythmia", "Coronary/Other">>

\* one <Q name=... options=[...]> element: the option values, in order
Q(name, options) == [name |-> name, options |-> options]

YesNo == <<"yes", "no">>

\* the <Q> elements GroupQuestions renders for a group, in order
GroupQuestions(g) ==
    CASE g = "Ventricular/PH/PPCM" ->
           << Q("PAH", YesNo),
              Q("LVEF", <<"<30%", "30-45%", ">45%">>),
              Q("NYHA", <<"I/II", "III/IV">>),
              Q("RVfunction", <<"none/mild", "significant">>),
              Q("PPCM", <<"no", "[le] mild residual", "> mild residual">>) >>
      [] g = "Cardiomyopathy" ->
           << Q("HCMgenoPheno", <<"+/[-]", "other">>),
              Q("HCMcomp", <<"none", "arrhythmic/moderate-hemodynamic",
                             "severe-LVOT>=50-or-EF<50%">>),
              Q("DCM_EF", <<">45%", "30-45%", "<30%/NYHAIII-IV">>),
              Q("ARVC", <<"low-risk", "moderate/severe", "na">>) >>
      [] g = "Valvular" ->
           << Q("PS_sev", <<"none", "mild", "moderate/severe">>),
              Q("MVP_present", YesNo),
              Q("MR_sev", <<"none/trace", "mild", "moderate", "severe">>),
              Q("AR_sev", <<"none/trace", "mild", "moderate", "severe">>),
              Q("MS", <<"none/mild", "moderate", "severe">>),
              Q("AS", <<"none/mild/moderate", "severe-asymptomatic", "severe-symptomatic">>),
              Q("MechanicalValve", <<"well-controlled", "unstable/complicated", "no">>) >>
      [] g = "Congenital" ->
           << Q("SimpleRepaired", YesNo),
              Q("ASDVSDunoperated", YesNo),
              Q("ToFgood", YesNo),
              Q("TGAarterialSwitchGood", YesNo),
              Q("AVSDrepairedGood", YesNo),
              Q("Ebstein", <<"uncomplicated", "complicated", "na">>),
              Q("SystemicRV", <<"good/mildly-decreased", "moderate/severely-decreased", "na">>),
              Q("Fontan", <<"uncomplicated", "complicated", "na">>),
              Q("Cyanotic", <<"unrepaired-non-eisenmenger", "eisenmenger", "no">>) >>
      [] g = "Aortopathy" ->
           << Q("NonHTADlt40", YesNo),
              Q("TurnerNoCVfeatures", YesNo),
              Q("HTADnoDilation_or_BAVlt45_or_repairedCoA", YesNo),
              Q("Marfan40to45", YesNo),
              Q("BAV45to50", YesNo),
              Q("TurnerASI20to25", YesNo),
              Q("OtherAortaLt50", YesNo),
              Q("MarfanGt45", YesNo),
              Q("BAVGt50", YesNo),
              Q("TurnerASIgt25", YesNo),
              Q("SevereRecoA_or_vEDS_or_PriorDissectionGrowing", YesNo),
              Q("PriorDissectionStable", YesNo) >>
      [] g = "Arrhythmia" ->
           << Q("IsolatedEctopy", YesNo),
              Q("SVTorPacemaker", YesNo),
              Q("InheritedLowRisk", YesNo),
              Q("InheritedHighRisk", YesNo),
              Q("SustainedVT", YesNo) >>
      [] g = "Coronary/Other" ->
           << Q("SCAD", YesNo),
              Q("PriorIschaemia", YesNo),
              Q("PriorAPOhosp", YesNo),
              Q("CancerTherapyCVtox", YesNo) >>
      [] OTHER -> <<>>

Range(seq) == {seq[i] : i \in 1..Len(seq)}

\* the second draft's questions (lines 839-995): every question also offers
\* "unknown"
YesNoUnknown == <<"yes", "no", "unknown">>

GroupQuestions2(g) ==
    CASE g = "Ventricular/PH/PPCM" ->
           << Q("PAH", YesNoUnknown),
              Q("LVEF", <<"<30%", "30-45%", ">45%", "unknown">>),
              Q("NYHA", <<"I/II", "III/IV", "unknown">>),
              Q("RVfunction", <<"none/mild", "significant", "unknown">>),
              Q("PPCM", <<"no", "[le] mild residual", "> mild residual", "unknown">>) >>
      [] g = "Cardiomyopathy" ->
           << Q("HCMgenoPheno", <<"+/[-]", "other", "unknown">>),
              Q("HCMcomp", <<"none", "arrhythmic/moderate-hemodynamic",
                             "severe-LVOT>=50-or-EF<50%", "unknown">>),
              Q("DCM_EF", <<">45%", "30-45%", "<30%/NYHAIII-IV", "unknown">>),
              Q("ARVC", <<"low-risk", "moderate/severe", "na", "unknown">>) >>
      [] g = "Valvular" ->
           << Q("PS_sev", <<"none", "mild", "moderate/severe", "unknown">>),
              Q("MVP_present", YesNoUnknown),
              Q("MR_sev", <<"none/trace", "mild", "moderate", "severe", "unknown">>),
              Q("AR_sev", <<"none/trace", "mild", "moderate", "severe", "unknown">>),
              Q("MS", <<"none/mild", "moderate", "severe", "unknown">>),
              Q("AS", <<"none/mild/moderate", "severe-asymptomatic", "severe-symptomatic",
                        "unknown">>),
              Q("MechanicalValve", <<"well-controlled", "unstable/complicated", "no",
                                     "unknown">>) >>
      [] g = "Congenital" ->
           << Q("SimpleRepaired", YesNoUnknown),
              Q("ASDVSDunoperated", YesNoUnknown),
              Q("ToFgood", YesNoUnknown),
              Q("TGAarterialSwitchGood", YesNoUnknown),
              Q("AVSDrepairedGood", YesNoUnknown),
              Q("Ebstein", <<"uncomplicated", "complicated", "na", "unknown">>),
              Q("SystemicRV", <<"good/mildly[v]", "moderate/severely[v]", "na", "unknown">>),
              Q("Fontan", <<"uncomplicated", "complicated", "na", "unknown">>),
              Q("Cyanotic", <<"unrepaired-non-eisenmenger", "eisenmenger", "no",
                              "unknown">>) >>
      [] g = "Aortopathy" ->
           << Q("NonHTADlt40", YesNoUnknown),
              Q("TurnerNoCVfeatures", YesNoUnknown),
              Q("HTADnoDilation_or_BAVlt45_or_repairedCoA", YesNoUnknown),
              Q("Marfan40to45", YesNoUnknown),
              Q("BAV45to50", YesNoUnknown),
              Q("TurnerASI20to25", YesNoUnknown),
              Q("OtherAortaLt50", YesNoUnknown),
              Q("MarfanGt45", YesNoUnknown),
              Q("BAVGt50", YesNoUnknown),
              Q("TurnerASIgt25", YesNoUnknown),
              Q("SevereRecoA_or_vEDS_or_PriorDissectionGrowing", YesNoUnknown),
              Q("PriorDissectionStable", YesNoUnknown) >>
      [] g = "Arrhythmia" ->
           << Q("IsolatedEctopy", YesNoUnknown),
              Q("SVTorPacemaker", YesNoUnknown),
              Q("InheritedLowRisk", YesNoUnknown),
              Q("InheritedHighRisk", YesNoUnknown),
              Q("SustainedVT", YesNoUnknown) >>
      [] g = "Coronary/Other" ->
           << Q("SCAD", YesNoUnknown),
              Q("PriorIschaemia", YesNoUnknown),
              Q("PriorAPOhosp", YesNoUnknown),
              Q("CancerTherapyCVtox", YesNoUnknown) >>
      [] OTHER -> <<>>

Compute(g, a) ==
    IF Falsy(g) THEN Result(Null, <<>>)
    ELSE CASE g = "Ventricular/PH/PPCM" -> computeVentricularPH(a)
           [] g = "Cardiomyopathy" -> computeCardiomyopathy(a)
           [] g = "Valvular" -> computeValvular(a)
           [] g = "Congenital" -> computeCongenital(a)
           [] g = "Aortopathy" -> computeAortopathy(a)
           [] g = "Arrhythmia" -> computeArrhythmia(a)
           [] g = "Coronary/Other" -> computeCoronaryOther(a)

\* the second draft's computed (lines 1006-1018)
Compute2(g, a) ==
    IF Falsy(g) THEN Result(Null, <<>>)
    ELSE CASE g = "Ventricular/PH/PPCM" -> computeVentricularPH2(a)
           [] g = "Cardiomyopathy" -> computeCardiomyopathy2(a)
           [] g = "Valvular" -> computeValvular2(a)
           [] g = "Congenital" -> computeCongenital2(a)
           [] g = "Aortopathy" -> computeAortopathy2(a)
           [] g = "Arrhythmia" -> computeArrhythmia2(a)
           [] g = "Coronary/Other" -> computeCoronaryOther2(a)
           [] OTHER -> Result(Null, <<>>)

\* the third draft's questions (lines 1403-1567)
GroupQuestions3(g) ==
    CASE g = "Ventricular/PH/PPCM" ->
           << Q("PAH", YesNo),
              Q("LVEF", <<"<30%", "30-45%", ">45%">>),
              Q("NYHA", <<"I/II", "III/IV">>),
              Q("RVfunction", <<"none/mild", "significant">>),
              Q("PPCM", <<"no", "[le] mild residual", "> mild residual">>) >>
      [] g = "Cardiomyopathy" ->
           << Q("HCMgenoPheno", <<"+/[-]", "other">>),
              Q("HCMcomp", <<"none", "arrhythmic/moderate-hemodynamic",
                             "severe-LVOT>=50-or-EF<50%">>),
              Q("DCM_EF", <<">45%", "30-45%", "<30%/NYHAIII-IV">>),
              Q("ARVC", <<"low-risk", "moderate/severe", "na">>) >>
      [] g = "Valvular" ->
           << Q("PS", <<"small/mild", "other">>),
              Q("MVP", <<"no-sig-MR", "other">>),
              Q("MS", <<"none/mild", "moderate", "severe">>),
              Q("AS", <<"none/mild/moderate", "severe-asymptomatic", "severe-symptomatic">>),
              Q("LeftRegurg", <<"none/mild/moderate", "severe">>),
              Q("NativeTissue", <<"mild-MS/mod-AS/mod-regurg", "na">>),
              Q("MechanicalValve", <<"well-controlled", "unstable/complicated", "no">>) >>
      [] g = "Congenital" ->
           << Q("SimpleRepaired", YesNo),
              Q("ASDVSDunoperated", YesNo),
              Q("ToFgood", YesNo),
              Q("TGAarterialSwitchGood", YesNo),
              Q("AVSDrepairedGood", YesNo),
              Q("Ebstein", <<"uncomplicated", "complicated", "na">>),
              Q("SystemicRV", <<"good/mildly[v]", "moderate/severely[v]", "na">>),
              Q("Fontan", <<"uncomplicated", "complicated", "na">>),
              Q("Cyanotic", <<"unrepaired-non-eisenmenger", "eisenmenger", "no">>) >>
      [] g = "Aortopathy" ->
           << Q("NonHTADlt40", YesNo),
              Q("TurnerNoCVfeatures", YesNo),
              Q("HTADnoDilation_or_BAVlt45_or_repairedCoA", YesNo),
              Q("Marfan40to45", YesNo),
              Q("BAV45to50", YesNo),
              Q("TurnerASI20to25", YesNo),
              Q("OtherAortaLt50", YesNo),
              Q("MarfanGt45", YesNo),
              Q("BAVGt50", YesNo),
              Q("TurnerASIgt25", YesNo),
              Q("SevereRecoA_or_vEDS_or_PriorDissectionGrowing", YesNo),
              Q("PriorDissectionStable", YesNo) >>
      [] g = "Arrhythmia" ->
           << Q("IsolatedEctopy", YesNo),
              Q("SVTorPacemaker", YesNo),
              Q("InheritedLowRisk", YesNo),
              Q("InheritedHighRisk", YesNo),
              Q("SustainedVT", YesNo) >>
      [] g = "Coronary/Other" ->
           << Q("SCAD", YesNo),
              Q("PriorIschaemia", YesNo),
              Q("PriorAPOhosp", YesNo),
              Q("CancerTherapyCVtox", YesNo) >>
      [] OTHER -> <<>>

\* the third draft's computed (lines 1577-1588)
Compute3(g, a) ==
    IF Falsy(g) THEN Result(Null, <<>>)
    ELSE CASE g = "Ventricular/PH/PPCM" -> computeVentricularPH3(a)
           [] g = "Cardiomyopathy" -> computeCardiomyopathy3(a)
           [] g = "Valvular" -> computeValvular3(a)
           [] g = "Congenital" -> computeCongenital3(a)
           [] g = "Aortopathy" -> computeAortopathy3(a)
           [] g = "Arrhythmia" -> computeArrhythmia3(a)
           [] g = "Coronary/Other" -> computeCoronaryOther3(a)

(***************************************************************************)
(* The guidance table (lines 51-82) and the places that index it: the      *)
(* summary (line 503) and the result panel (lines 570-577).                *)
(***************************************************************************)
meaningByMWHO ==
    [c \in MWHO |->
        CASE c = "I" ->
             [maternal |-> "No detectable increase in maternal mortality; no/mild morbidity vs general population.",
              fetal |-> "Baseline obstetric/fetal risk.",
              care |-> "Routine antenatal care; cardiology as needed.",
              delivery |-> "Vaginal birth usually appropriate; neuraxial anesthesia per obstetric plan."]
          [] c = "II" ->
             [maternal |-> "Small increase in maternal mortality or moderate morbidity.",
              fetal |-> "Slight increase in preterm/low-birth-weight/perinatal complications.",
              care |-> "Shared care with cardiology; define follow-up plan.",
              delivery |-> "Vaginal birth preferred; consider assisted second stage if hemodynamics warrant."]
          [] c = "II-III" ->
             [maternal |-> "Intermediate risk between II and III; morbidity depends on lesion severity.",
              fetal |-> "Moderate increase in fetal complications depending on condition.",
              care |-> "Shared care with a Pregnancy Heart Team; deliver where cardiology and anesthesia are on site.",
              delivery |-> "Vaginal birth usually preferred; individualized plan; early anesthesia review."]
          [] c = "III" ->
             [maternal |-> "Significant increase in maternal mortality or severe morbidity.",
              fetal |-> "High increase in fetal complications (preterm, growth, NICU).",
              care |-> "Care led by a Pregnancy Heart Team at an expert center; close surveillance; multidisciplinary plan.",
              delivery |-> "Vaginal birth often preferred with assisted second stage; cesarean for specific cardiac/obstetric indications."]
          [] c = "IV" ->
             [maternal |-> "Extremely high risk; pregnancy is not recommended (contraindicated).",
              fetal |-> "Very high fetal/neonatal risk given maternal instability/therapy limits.",
              care |-> "If pregnant and continuing, manage in an expert center with intensive surveillance.",
              delivery |-> "Mode individualized by expert team; cesarean may be preferred in select scenarios (e.g., severe PH)."]]

\* mutant of summaryIndexed: meaningByMWHO[computed.mwho] without the test
summaryIndexedUnguarded(c) == <<c>>

\* const s = computed.mwho ? meaningByMWHO[computed.mwho] : undefined
\* the keys meaningByMWHO is indexed with
summaryIndexed(c) == IF ~Falsy(c) THEN <<c>> ELSE <<>>

\* {computed.mwho && (<> four pills, each meaningByMWHO[computed.mwho].field </>)},
\* inside {group && (...)}: the keys meaningByMWHO is indexed with
panelIndexed(g, c) == IF ~Falsy(g) /\ ~Falsy(c) THEN <<c, c, c, c>> ELSE <<>>

\* the second draft's guidance table (lines 657-688)
meaningByMWHO2 ==
    [c \in MWHO |->
        CASE c = "I" ->
             [maternal |-> "No detectable [^] mortality; no/mild [^] morbidity vs general population.",
              fetal |-> "Baseline obstetric/fetal risk.",
              care |-> "Routine antenatal care; cardiology as needed.",
              delivery |-> "Vaginal birth usually appropriate; neuraxial anesthesia as per obstetric plan."]
          [] c = "II" ->
             [maternal |-> "Small [^] maternal mortality or moderate [^] morbidity.",
              fetal |-> "Slight [^] preterm/low[nb-]birth[nb-]weight/perinatal complications.",
              care |-> "Shared care with cardiology; define follow[nb-]up plan.",
              delivery |-> "Vaginal birth preferred; consider assisted 2nd stage if hemodynamics warrant."]
          [] c = "II-III" ->
             [maternal |-> "Intermediate between II and III; morbidity can be important depending on lesion severity.",
              fetal |-> "Moderate [^] fetal complications (preterm, growth restriction) depending on condition.",
              care |-> "Shared care with a Pregnancy Heart Team; deliver in hospital with cardiology & anesthesia on site.",
              delivery |-> "Vaginal birth usually preferred; individualized plan; early anesthesia review."]
          [] c = "III" ->
             [maternal |-> "Significantly [^] maternal mortality or severe morbidity.",
              fetal |-> "High [^] fetal complications (preterm, growth, neonatal ICU).",
              care |-> "Care led by a Pregnancy Heart Team at an expert centre; close surveillance; multidisciplinary birth plan.",
              delivery |-> "Vaginal birth often preferred with assisted 2nd stage; Caesarean for specific cardiac/obstetric indications."]
          [] c = "IV" ->
             [maternal |-> "Extremely high risk; pregnancy is not recommended (contraindicated).",
              fetal |-> "Very high fetal/neonatal risk given maternal instability/therapy constraints.",
              care |-> "Pre[nb-]pregnancy counselling to avoid pregnancy. If pregnant and continuing, manage in expert centre.",
              delivery |-> "Mode individualized by expert team; Caesarean may be preferred in select scenarios (e.g., severe PH)."]]

(***************************************************************************)
(* The plain-text summary (lines 501-506; second draft 1020-1034).  A text *)
(* is the sequence of its pieces: the template's words, its blanks (" ",   *)
(* "\n") and each interpolated value are pieces of their own, so that      *)
(* trim() is the removal of blank and empty pieces at both ends.           *)
(***************************************************************************)
Blank == {"", " ", "\n"}

RECURSIVE trimStart(_)
trimStart(t) == IF t # <<>> /\ Head(t) \in Blank THEN trimStart(Tail(t)) ELSE t

RECURSIVE trimEnd(_)
trimEnd(t) ==
    IF t # <<>> /\ t[Len(t)] \in Blank THEN trimEnd(SubSeq(t, 1, Len(t) - 1)) ELSE t

\* String.prototype.trim
trim(t) == trimEnd(trimStart(t))

\* Array.prototype.join
RECURSIVE join(_, _)
join(xs, sep) ==
    IF xs = <<>> THEN <<>>
    ELSE IF Len(xs) = 1 THEN xs
    ELSE <<Head(xs), sep>> \o join(Tail(xs), sep)

\* obj[k]: <<the value>>, or <<>> for undefined
Index(obj, k) == IF k \in DOMAIN obj THEN <<obj[k]>> ELSE <<>>

\* mutant of summary: the Flags line is appended whatever the notes are
summaryFlagsAlways(g, c) ==
    LET mh == IF ~Falsy(c.mwho) THEN <<"mWHO ", c.mwho>> ELSE <<"-">>
        s == IF ~Falsy(c.mwho) THEN Index(meaningByMWHO, c.mwho) ELSE <<>>
        opt(f) == IF s = <<>> THEN "" ELSE s[1][f]
        flags == <<"\n", "Flags:", " ">> \o join(c.notes, "; ")
    IN  trim(<<"Group:", " ", Nullish(g, "-"), "\n", "Result:", " ">> \o mh
             \o <<"\n", "Maternal risk:", " ", opt("maternal"),
                  "\n", "Fetal risk:", " ", opt("fetal"),
                  "\n", "Care level:", " ", opt("care"),
                  "\n", "Delivery guidance:", " ", opt("delivery")>>
             \o flags)

\* the first draft's summary; s?.f ?? "" is opt(f)
summary(g, c) ==
    LET mh == IF ~Falsy(c.mwho) THEN <<"mWHO ", c.mwho>> ELSE <<"-">>
        s == IF ~Falsy(c.mwho) THEN Index(meaningByMWHO, c.mwho) ELSE <<>>
        opt(f) == IF s = <<>> THEN "" ELSE s[1][f]
        flags == IF Len(c.notes) # 0
                 THEN <<"\n", "Flags:", " ">> \o join(c.notes, "; ")
                 ELSE <<"">>
    IN  trim(<<"Group:", " ", Nullish(g, "-"), "\n", "Result:", " ">> \o mh
             \o <<"\n", "Maternal risk:", " ", opt("maternal"),
                  "\n", "Fetal risk:", " ", opt("fetal"),
                  "\n", "Care level:", " ", opt("care"),
                  "\n", "Delivery guidance:", " ", opt("delivery")>>
             \o flags)

\* the second draft's summary
summary2(g, c) ==
    LET mh == IF ~Falsy(c.mwho) THEN <<"mWHO ", c.mwho>> ELSE <<"-">>
        care == IF ~Falsy(c.mwho) THEN meaningByMWHO2[c.mwho].care ELSE ""
        del == IF ~Falsy(c.mwho) THEN meaningByMWHO2[c.mwho].delivery ELSE ""
        maternal == IF ~Falsy(c.mwho) THEN meaningByMWHO2[c.mwho].maternal ELSE ""
        fetal == IF ~Falsy(c.mwho) THEN meaningByMWHO2[c.mwho].fetal ELSE ""
        flags == IF Len(c.notes) # 0
                 THEN <<"\n", "Flags:", " ">> \o join(c.notes, "; ")
                 ELSE <<"">>
    IN  trim(<<"Group:", " ", Nullish(g, "-"),
               "\n", "Result:", " ">> \o mh
             \o <<"\n", "Maternal risk:", " ", maternal,
                  "\n", "Fetal risk:", " ", fetal,
                  "\n", "Care level:", " ", care,
                  "\n", "Delivery guidance:", " ", del>>
             \o flags)

(***************************************************************************)
(* Inputs of the rule functions.  An Answers object is any string-keyed,   *)
(* string-valued map: besides the option values the form offers, a key may *)
(* hold a value no guard tests ("unknown") or the value as the written     *)
(* rule table spells it.                                                   *)
(***************************************************************************)
TableSpelling(name) ==
    CASE name = "PPCM" -> {">mild residual", "[le]mild residual"}
      [] name = "HCMcomp" -> {"severe-LVOT[ge]50-or-EF<50%"}
      [] name = "DCM_EF" -> {"<30%/NYHA III-IV"}
      [] name = "SystemicRV" -> {"good/mildly-decreased", "moderate/severely-decreased"}
      [] OTHER -> {}

\* "na" is an option of other questions (Ebstein, Fontan); under MR_sev it is a
\* value that no form offers and no guard tests
Misplaced(name) == IF name = "MR_sev" THEN {"na"} ELSE {}

Unoffered(name) == {"unknown"} \cup TableSpelling(name) \cup Misplaced(name)

\* the values a key may hold in a call
Values(q) == Range(q.options) \cup Unoffered(q.name)

\* every Answers object whose keys are exactly the questions qs[i], i \in S
RECURSIVE AnswersOn(_, _)
AnswersOn(qs, S) ==
    IF S = {} THEN {EmptyAnswers}
    ELSE LET i == CHOOSE x \in S : TRUE
         IN  {Put(f, qs[i].name, v) : f \in AnswersOn(qs, S \ {i}), v \in Values(qs[i])}

\* the sets of at most n questions of qs
KeySets(qs, n) == {S \in SUBSET (1..Len(qs)) : Cardinality(S) <= n}

(***************************************************************************)
(* Values of the variables a specification does not use.                   *)
(***************************************************************************)
AppIdle ==
    group = Null /\ answers = EmptyAnswers /\ computed = Result(Null, <<>>) /\ log = <<>>
CallIdle == fn = Null /\ arg = EmptyAnswers /\ ret = NoRet
ReducerIdle == hcIn = <<Null, Null, Null>> /\ hcOut = EmptyAnswers

(***************************************************************************)
(* Specification SpecHighest: highestClass applied to operands drawn from  *)
(* {null} and the five classes, by each of the three drafts.               *)
(***************************************************************************)
HCDomain == {Null} \cup MWHO

\* the three drafts' highestClass on the same operands
Drafts(a, b) == <<highestClass(a, b), highestClass2(a, b), highestClass3(a, b)>>

\* draft-wise application to two triples of earlier results
DraftsOn(x, y) ==
    <<highestClass(x[1], y[1]), highestClass2(x[2], y[2]), highestClass3(x[3], y[3])>>

Same(x) == <<x, x, x>>

InitHighest ==
    /\ ORDER = ORDER0
    /\ AppIdle
    /\ CallIdle
    /\ hcIn \in HCDomain \X HCDomain \X HCDomain
    /\ hcOut = EmptyAnswers

\* highestClass(a, b), highestClass(b, a) and highestClass(b, c)
CombinePairs ==
    /\ "ab" \notin DOMAIN hcOut
    /\ hcOut' = Put(Put(Put(hcOut, "ab", Drafts(hcIn[1], hcIn[2])),
                        "ba", Drafts(hcIn[2], hcIn[1])),
                    "bc", Drafts(hcIn[2], hcIn[3]))
    /\ UNCHANGED <<ORDER, group, answers, computed, fn, arg, ret, hcIn, log>>

\* highestClass(highestClass(a, b), c)
CombineLeft ==
    /\ "ab" \in DOMAIN hcOut
    /\ "ab_c" \notin DOMAIN hcOut
    /\ hcOut' = Put(hcOut, "ab_c", DraftsOn(hcOut["ab"], Same(hcIn[3])))
    /\ UNCHANGED <<ORDER, group, answers, computed, fn, arg, ret, hcIn, log>>

\* highestClass(a, highestClass(b, c))
CombineRight ==
    /\ "bc" \in DOMAIN hcOut
    /\ "a_bc" \notin DOMAIN hcOut
    /\ hcOut' = Put(hcOut, "a_bc", DraftsOn(Same(hcIn[1]), hcOut["bc"]))
    /\ UNCHANGED <<ORDER, group, answers, computed, fn, arg, ret, hcIn, log>>

NextHighest == CombinePairs \/ CombineLeft \/ CombineRight

SpecHighest == InitHighest /\ [][NextHighest]_vars

(***************************************************************************)
(* Specification SpecRules: each rule function called once on an Answers   *)
(* object of at most MaxAnswered keys.  SpecVentricular: computeVentricularPH *)
(* called on every Answers object over its five keys.                      *)
(***************************************************************************)
InitRules ==
    /\ ORDER = ORDER0
    /\ AppIdle
    /\ ReducerIdle
    /\ fn \in Range(GROUPS)
    /\ \E S \in KeySets(GroupQuestions(fn), MaxAnswered) : arg \in AnswersOn(GroupQuestions(fn), S)
    /\ ret = NoRet

InitVentricular ==
    /\ ORDER = ORDER0
    /\ AppIdle
    /\ ReducerIdle
    /\ fn = "Ventricular/PH/PPCM"
    /\ \E S \in SUBSET (1..Len(GroupQuestions(fn))) : arg \in AnswersOn(GroupQuestions(fn), S)
    /\ ret = NoRet

\* a call returns its result; the functions never write to a, nor to ORDER
Return(r) ==
    /\ ret = NoRet
    /\ ret' = <<r>>
    /\ UNCHANGED <<ORDER, group, answers, computed, fn, arg, hcIn, hcOut, log>>

CallVentricularPH == fn = "Ventricular/PH/PPCM" /\ Return(computeVentricularPH(arg))
CallCardiomyopathy == fn = "Cardiomyopathy" /\ Return(computeCardiomyopathy(arg))
CallValvular == fn = "Valvular" /\ Return(computeValvular(arg))
CallCongenital == fn = "Congenital" /\ Return(computeCongenital(arg))
CallAortopathy == fn = "Aortopathy" /\ Return(computeAortopathy(arg))
CallArrhythmia == fn = "Arrhythmia" /\ Return(computeArrhythmia(arg))
CallCoronaryOther == fn = "Coronary/Other" /\ Return(computeCoronaryOther(arg))

NextRules ==
    \/ CallVentricularPH
    \/ CallCardiomyopathy
    \/ CallValvular
    \/ CallCongenital
    \/ CallAortopathy
    \/ CallArrhythmia
    \/ CallCoronaryOther

SpecRules == InitRules /\ [][NextRules]_vars

(***************************************************************************)
(* Specification SpecDrafts: the seven rule functions of the first draft   *)
(* and computeValvular and computeCongenital of the second, each called    *)
(* once on an Answers object of at most MaxAnswered keys, among them       *)
(* possibly one key that no rule function reads.                           *)
(***************************************************************************)
Valvular2 == "Valvular (second draft)"
Congenital2 == "Congenital (second draft)"

\* a key no rule function inspects
Uninspected == Q("Comment", <<"yes">>)

FunctionQuestions(f) ==
    Append(CASE f = Valvular2 -> GroupQuestions2("Valvular")
             [] f = Congenital2 -> GroupQuestions2("Congenital")
             [] OTHER -> GroupQuestions(f),
           Uninspected)

\* the function a call names
Call(f, a) ==
    CASE f = Valvular2 -> computeValvular2(a)
      [] f = Congenital2 -> computeCongenital2(a)
      [] OTHER -> Compute(f, a)

InitDrafts ==
    /\ ORDER = ORDER0
    /\ AppIdle
    /\ ReducerIdle
    /\ fn \in Range(GROUPS) \cup {Valvular2, Congenital2}
    /\ \E S \in KeySets(FunctionQuestions(fn), MaxAnswered) :
           arg \in AnswersOn(FunctionQuestions(fn), S)
    /\ ret = NoRet

CallValvular2 == fn = Valvular2 /\ Return(computeValvular2(arg))
CallCongenital2 == fn = Congenital2 /\ Return(computeCongenital2(arg))

NextDrafts ==
    \/ CallVentricularPH
    \/ CallCardiomyopathy
    \/ CallValvular
    \/ CallCongenital
    \/ CallAortopathy
    \/ CallArrhythmia
    \/ CallCoronaryOther
    \/ CallValvular2
    \/ CallCongenital2

SpecDrafts == InitDrafts /\ [][NextDrafts]_vars

NextVentricular == CallVentricularPH

SpecVentricular == InitVentricular /\ [][NextVentricular]_vars

(***************************************************************************)
(* Specification Spec: the App component (lines 482-593).                  *)
(***************************************************************************)
Init ==
    /\ ORDER = ORDER0
    /\ group = Null
    /\ answers = EmptyAnswers
    /\ computed = Compute(Null, EmptyAnswers)
    /\ log = <<>>
    /\ CallIdle
    /\ ReducerIdle

\* a group button's onClick (line 524), then the re-render
SelectGroup(g) ==
    /\ group' = g
    /\ answers' = EmptyAnswers
    /\ computed' = Compute(group', answers')
    /\ log' = <<>>
    /\ UNCHANGED <<ORDER, fn, arg, ret, hcIn, hcOut>>

\* mutant of set: useMemo's dependencies lack answers, computed is not redone
setStale(k, v) ==
    /\ ~Falsy(group)
    /\ k \in DOMAIN answers \/ Cardinality(DOMAIN answers) < MaxAnswered
    /\ answers' = Put(answers, k, v)
    /\ computed' = computed
    /\ UNCHANGED <<ORDER, group, fn, arg, ret, hcIn, hcOut>>

\* a radio button's onChange, i.e. set(k, v) (line 486), then the re-render;
\* the questions are rendered only while a group is selected (line 545)
set(k, v) ==
    /\ ~Falsy(group)
    /\ k \in DOMAIN answers \/ Cardinality(DOMAIN answers) < MaxAnswered
    /\ answers' = Put(answers, k, v)
    /\ computed' = Compute(group, answers')
    /\ UNCHANGED <<ORDER, group, fn, arg, ret, hcIn, hcOut>>

\* the Reset button's onClick (line 582), rendered while a group is selected
Reset ==
    /\ ~Falsy(group)
    /\ group' = Null
    /\ answers' = EmptyAnswers
    /\ computed' = Compute(group', answers')
    /\ log' = <<>>
    /\ UNCHANGED <<ORDER, fn, arg, ret, hcIn, hcOut>>

Next ==
    \/ \E g \in Range(GROUPS) : SelectGroup(g)
    \/ \E i \in 1..Len(GroupQuestions(group)) :
          \E v \in Range(GroupQuestions(group)[i].options) :
             set(GroupQuestions(group)[i].name, v) /\ UNCHANGED log
    \/ Reset

Spec == Init /\ [][Next]_vars

(***************************************************************************)
(* Specification SpecApp2: the second draft's App (lines 999-1142).  Its   *)
(* group buttons call setGroup(g) only, so the answers of earlier groups   *)
(* stay in the map; at most MaxKept keys are answered.                     *)
(***************************************************************************)
MaxKept == 2

Init2 ==
    /\ ORDER = ORDER0
    /\ group = Null
    /\ answers = EmptyAnswers
    /\ computed = Compute2(Null, EmptyAnswers)
    /\ log = <<>>
    /\ CallIdle
    /\ ReducerIdle

\* a group button's onClick (line 1053), then the re-render
SelectGroup2(g) ==
    /\ group' = g
    /\ answers' = answers
    /\ computed' = Compute2(group', answers')
    /\ UNCHANGED <<ORDER, fn, arg, ret, hcIn, hcOut, log>>

\* a radio button's onChange, i.e. set(k, v) (line 1004), then the re-render
set2(k, v) ==
    /\ ~Falsy(group)
    /\ k \in DOMAIN answers \/ Cardinality(DOMAIN answers) < MaxKept
    /\ answers' = Put(answers, k, v)
    /\ computed' = Compute2(group, answers')
    /\ UNCHANGED <<ORDER, group, fn, arg, ret, hcIn, hcOut, log>>

\* onReset (line 1037), rendered while a group is selected
Reset2 ==
    /\ ~Falsy(group)
    /\ group' = Null
    /\ answers' = EmptyAnswers
    /\ computed' = Compute2(group', answers')
    /\ UNCHANGED <<ORDER, fn, arg, ret, hcIn, hcOut, log>>

Next2 ==
    \/ \E g \in Range(GROUPS) : SelectGroup2(g)
    \/ \E i \in 1..Len(GroupQuestions2(group)) :
          \E v \in Range(GroupQuestions2(group)[i].options) :
             set2(GroupQuestions2(group)[i].name, v)
    \/ Reset2

SpecApp2 == Init2 /\ [][Next2]_vars

(***************************************************************************)
(* Reference notions the properties are stated with.                       *)
(***************************************************************************)
\* the position of a class in the order I < II < II-III < III < IV; null below all
Rank(c) ==
    CASE c = Null -> 0
      [] c = "I" -> 1
      [] c = "II" -> 2
      [] c = "II-III" -> 3
      [] c = "III" -> 4
      [] c = "IV" -> 5

\* max over the fixed order, null the identity
RefMax(a, b) ==
    IF a = Null THEN b
    ELSE IF b = Null THEN a
    ELSE IF Rank(a) >= Rank(b) THEN a ELSE b

\* the highest class of a set of classes, null for the empty set
RefHighest(S) == IF S = {} THEN Null ELSE CHOOSE c \in S : \A d \in S : Rank(d) <= Rank(c)

Returned == ret # NoRet
Out == ret[1]

(***************************************************************************)
(* Properties of the severity reducer, under SpecHighest.                  *)
(***************************************************************************)
\* C1: highestClass(a, b) is the max of a and b over the fixed order
\* I < II < II-III < III < IV with null as identity (b when a is null, a when
\* b is null, else the later of the two), for all operands in {null} and the
\* five classes, also when an operand is itself a highestClass result; and
\* ORDER is the same array in every reachable state.
C1_HighestClassIsMax ==
    /\ ORDER = <<"I", "II", "II-III", "III", "IV">>
    /\ "ab" \in DOMAIN hcOut =>
          /\ hcOut["ab"][1] = RefMax(hcIn[1], hcIn[2])
          /\ hcOut["ba"][1] = RefMax(hcIn[2], hcIn[1])
          /\ hcOut["bc"][1] = RefMax(hcIn[2], hcIn[3])
    /\ "ab_c" \in DOMAIN hcOut =>
          hcOut["ab_c"][1] = RefMax(RefMax(hcIn[1], hcIn[2]), hcIn[3])
    /\ "a_bc" \in DOMAIN hcOut =>
          hcOut["a_bc"][1] = RefMax(hcIn[1], RefMax(hcIn[2], hcIn[3]))

\* two different classes, the higher one first, and a null third operand, combined
C1_Witness ==
    /\ hcIn = <<"III", "II", Null>>
    /\ "ab_c" \in DOMAIN hcOut
    /\ hcOut["ab"][1] = "III"
    /\ hcOut["ba"][1] = "III"
    /\ hcOut["bc"][1] = "II"
    /\ hcOut["ab_c"][1] = "III"

\* C2: highestClass is commutative and associative over {null, I, II, II-III,
\* III, IV}, in each of the three drafts: highestClass(a, b) = highestClass(b, a)
\* and highestClass(highestClass(a, b), c) = highestClass(a, highestClass(b, c)).
C2_CommutativeAssociative ==
    /\ "ab" \in DOMAIN hcOut => hcOut["ab"] = hcOut["ba"]
    /\ ("ab_c" \in DOMAIN hcOut /\ "a_bc" \in DOMAIN hcOut) => hcOut["ab_c"] = hcOut["a_bc"]

\* three different classes, the middle one highest, combined both ways
C2_Witness ==
    /\ hcIn = <<"III", "IV", "I">>
    /\ "ab_c" \in DOMAIN hcOut
    /\ "a_bc" \in DOMAIN hcOut
    /\ hcOut["ab_c"] = <<"IV", "IV", "IV">>
    /\ hcOut["ba"] = <<"IV", "IV", "IV">>

(***************************************************************************)
(* Properties of the rule functions, under SpecRules.                      *)
(***************************************************************************)
\* C3: whatever the group and the answer set, the class a rule function
\* returns is null or one of I, II, II-III, III, IV.
C3_ClassInDomain == Returned => Out.mwho \in {Null, "I", "II", "II-III", "III", "IV"}

\* a fold that combined two candidates: Valvular with a moderate and a severe lesion
C3_Witness ==
    /\ Returned
    /\ fn = "Valvular"
    /\ Get(arg, "MR_sev") = "moderate"
    /\ Get(arg, "MS") = "severe"
    /\ Get(arg, "PS_sev") = "unknown"
    /\ Out.mwho = "IV"

\* the class of a criterion "key = value", when the answers satisfy it
Crit(a, k, v, c) == IF Get(a, k) = v THEN {c} ELSE {}

\* the classes of the criteria of a group that the answers satisfy: one criterion
\* per guard of the group's rule function, with the class the guard assigns
SatisfiedClasses(g, a) ==
    CASE g = "Ventricular/PH/PPCM" ->
           Crit(a, "PAH", "yes", "IV")
           \cup Crit(a, "LVEF", "<30%", "IV")
           \cup Crit(a, "NYHA", "III/IV", "IV")
           \cup Crit(a, "LVEF", "30-45%", "III")
           \cup Crit(a, "LVEF", ">45%", "II-III")
           \cup (IF Get(a, "LVEF") = ">45%"
                 THEN Crit(a, "RVfunction", "significant", "II-III")
                      \cup Crit(a, "PPCM", "> mild residual", "IV")
                      \cup Crit(a, "PPCM", "[le] mild residual", "III")
                 ELSE {})
      [] g = "Cardiomyopathy" ->
           Crit(a, "HCMgenoPheno", "+/[-]", "I")
           \cup Crit(a, "HCMcomp", "arrhythmic/moderate-hemodynamic", "III")
           \cup Crit(a, "HCMcomp", "severe-LVOT>=50-or-EF<50%", "IV")
           \cup Crit(a, "DCM_EF", ">45%", "II-III")
           \cup Crit(a, "DCM_EF", "30-45%", "III")
           \cup Crit(a, "DCM_EF", "<30%/NYHAIII-IV", "IV")
           \cup Crit(a, "ARVC", "low-risk", "II-III")
           \cup Crit(a, "ARVC", "moderate/severe", "III")
      [] g = "Valvular" ->
           Crit(a, "PS_sev", "mild", "I")
           \cup Crit(a, "PS_sev", "moderate/severe", "II-III")
           \cup Crit(a, "MS", "moderate", "III")
           \cup Crit(a, "MS", "severe", "IV")
           \cup Crit(a, "AS", "severe-asymptomatic", "III")
           \cup Crit(a, "AS", "severe-symptomatic", "IV")
           \cup Crit(a, "MR_sev", "severe", "III")
           \cup Crit(a, "AR_sev", "severe", "III")
           \cup Crit(a, "MR_sev", "moderate", "II-III")
           \cup Crit(a, "AR_sev", "moderate", "II-III")
           \cup (IF Get(a, "MVP_present") = "yes" /\ Get(a, "MR_sev") \in {"none/trace", "mild"}
                 THEN {"I"} ELSE {})
           \cup Crit(a, "MechanicalValve", "well-controlled", "III")
           \cup Crit(a, "MechanicalValve", "unstable/complicated", "III")
      [] g = "Congenital" ->
           Crit(a, "SimpleRepaired", "yes", "I")
           \cup Crit(a, "ASDVSDunoperated", "yes", "II")
           \cup Crit(a, "ToFgood", "yes", "II")
           \cup Crit(a, "TGAarterialSwitchGood", "yes", "II")
           \cup Crit(a, "AVSDrepairedGood", "yes", "II-III")
           \cup Crit(a, "Ebstein", "uncomplicated", "II-III")
           \cup Crit(a, "Ebstein", "complicated", "III")
           \cup Crit(a, "SystemicRV", "good/mildly-decreased", "III")
           \cup Crit(a, "SystemicRV", "moderate/severely-decreased", "IV")
           \cup Crit(a, "Fontan", "uncomplicated", "III")
           \cup Crit(a, "Fontan", "complicated", "IV")
           \cup Crit(a, "Cyanotic", "unrepaired-non-eisenmenger", "III")
           \cup Crit(a, "Cyanotic", "eisenmenger", "IV")
      [] g = "Aortopathy" ->
           Crit(a, "NonHTADlt40", "yes", "I")
           \cup Crit(a, "TurnerNoCVfeatures", "yes", "II")
           \cup Crit(a, "HTADnoDilation_or_BAVlt45_or_repairedCoA", "yes", "II-III")
           \cup Crit(a, "Marfan40to45", "yes", "III")
           \cup Crit(a, "BAV45to50", "yes", "III")
           \cup Crit(a, "TurnerASI20to25", "yes", "III")
           \cup Crit(a, "OtherAortaLt50", "yes", "III")
           \cup Crit(a, "MarfanGt45", "yes", "IV")
           \cup Crit(a, "BAVGt50", "yes", "IV")
           \cup Crit(a, "TurnerASIgt25", "yes", "IV")
           \cup Crit(a, "SevereRecoA_or_vEDS_or_PriorDissectionGrowing", "yes", "IV")
           \cup Crit(a, "PriorDissectionStable", "yes", "III")
      [] g = "Arrhythmia" ->
           Crit(a, "IsolatedEctopy", "yes", "I")
           \cup Crit(a, "SVTorPacemaker", "yes", "II")
           \cup Crit(a, "InheritedLowRisk", "yes", "II-III")
           \cup Crit(a, "InheritedHighRisk", "yes", "III")
           \cup Crit(a, "SustainedVT", "yes", "III")
      [] g = "Coronary/Other" ->
           Crit(a, "SCAD", "yes", "III")
           \cup Crit(a, "PriorIschaemia", "yes", "III")
           \cup Crit(a, "PriorAPOhosp", "yes", "III")
           \cup Crit(a, "CancerTherapyCVtox", "yes", "III")

\* C5: in every group, Ventricular/PH/PPCM included, the returned class is the
\* highest, in the order I < II < II-III < III < IV, among the classes of all
\* criteria of the group that the answers satisfy.
C5_HighestWinsInEveryGroup == Returned => Out.mwho = RefHighest(SatisfiedClasses(fn, arg))

\* the same statement for the six groups other than Ventricular/PH/PPCM
C5_HighestWinsInFlatGroups ==
    (Returned /\ fn # "Ventricular/PH/PPCM") => Out.mwho = RefHighest(SatisfiedClasses(fn, arg))

(***************************************************************************)
(* Properties of computeVentricularPH, under SpecVentricular.              *)
(***************************************************************************)
\* C6: whenever PAH = "yes" the result is class IV with notes exactly
\* <<"Pulmonary arterial hypertension">>, whatever LVEF, NYHA, RVfunction and
\* PPCM hold or whether they are absent; no PPCM note comes with it.
C6_PahShortCircuits ==
    (Returned /\ Get(arg, "PAH") = "yes") =>
        Out = [mwho |-> "IV", notes |-> <<"Pulmonary arterial hypertension">>]

\* PAH together with every other severe signal
C6_Witness ==
    /\ Returned
    /\ Get(arg, "PAH") = "yes"
    /\ Get(arg, "LVEF") = "<30%"
    /\ Get(arg, "NYHA") = "III/IV"
    /\ Get(arg, "RVfunction") = "significant"
    /\ Get(arg, "PPCM") = "> mild residual"
    /\ Out.notes = <<"Pulmonary arterial hypertension">>

\* C7: with PAH not "yes": LVEF = "<30%" or NYHA = "III/IV" gives IV with no
\* notes (NYHA = "III/IV" also when LVEF is "30-45%", ">45%" or absent);
\* otherwise LVEF = "30-45%" gives III with no notes, whatever RVfunction and
\* PPCM are.
C7_LvefNyhaBranches ==
    (Returned /\ Get(arg, "PAH") # "yes") =>
        /\ (Get(arg, "LVEF") = "<30%" \/ Get(arg, "NYHA") = "III/IV") =>
               Out = [mwho |-> "IV", notes |-> <<>>]
        /\ (Get(arg, "LVEF") = "30-45%" /\ Get(arg, "NYHA") # "III/IV") =>
               Out = [mwho |-> "III", notes |-> <<>>]

\* NYHA III/IV overriding a moderate LVEF, with a PPCM answer present
C7_Witness ==
    /\ Returned
    /\ Get(arg, "PAH") = "no"
    /\ Get(arg, "LVEF") = "30-45%"
    /\ Get(arg, "NYHA") = "III/IV"
    /\ Get(arg, "PPCM") = "[le] mild residual"
    /\ Out = [mwho |-> "IV", notes |-> <<>>]

C9_PpcmTableSpelling ==
    (Returned /\ Get(arg, "PAH") # "yes" /\ Get(arg, "NYHA") # "III/IV"
     /\ Get(arg, "LVEF") = ">45%" /\ Get(arg, "RVfunction") # "significant") =>
        /\ Get(arg, "PPCM") = ">mild residual" => (Out.mwho = "IV" /\ Len(Out.notes) = 1)
        /\ Get(arg, "PPCM") = "[le]mild residual" => (Out.mwho = "III" /\ Len(Out.notes) = 1)

\* C9 as amended: the same with the values the code and its form use,
\* "> mild residual" and "[le] mild residual" (a space after the sign); the one
\* note is the PPCM note of that branch.
C9_PpcmBranches ==
    (Returned /\ Get(arg, "PAH") # "yes" /\ Get(arg, "NYHA") # "III/IV"
     /\ Get(arg, "LVEF") = ">45%" /\ Get(arg, "RVfunction") # "significant") =>
        /\ Get(arg, "PPCM") = "> mild residual" =>
               Out = [mwho |-> "IV", notes |-> <<"PPCM with > mild residual LV impairment">>]
        /\ Get(arg, "PPCM") = "[le] mild residual" =>
               Out = [mwho |-> "III", notes |-> <<"PPCM with [le] mild residual LV impairment">>]

\* the [le] mild answer with every other question answered harmlessly
C9_Witness ==
    /\ Returned
    /\ Get(arg, "PAH") = "no"
    /\ Get(arg, "NYHA") = "I/II"
    /\ Get(arg, "LVEF") = ">45%"
    /\ Get(arg, "RVfunction") = "none/mild"
    /\ Get(arg, "PPCM") = "[le] mild residual"
    /\ Out.mwho = "III"
    /\ Len(Out.notes) = 1

\* C10: with PAH not "yes", NYHA not "III/IV" and LVEF absent or none of
\* "<30%", "30-45%", ">45%", the result is (null, []) whatever RVfunction and
\* PPCM are.
C10_UncoveredIsNull ==
    (Returned /\ Get(arg, "PAH") # "yes" /\ Get(arg, "NYHA") # "III/IV"
     /\ Get(arg, "LVEF") \notin {"<30%", "30-45%", ">45%"}) =>
        Out = [mwho |-> Null, notes |-> <<>>]

\* an unrecognised LVEF value with an impaired RV and a PPCM residual answer
C10_Witness ==
    /\ Returned
    /\ Get(arg, "PAH") = "no"
    /\ Get(arg, "NYHA") = "I/II"
    /\ Get(arg, "LVEF") = "unknown"
    /\ Get(arg, "RVfunction") = "significant"
    /\ Get(arg, "PPCM") = "> mild residual"
    /\ Out = [mwho |-> Null, notes |-> <<>>]

(***************************************************************************)
(* Properties of computeCardiomyopathy, under SpecRules.                   *)
(***************************************************************************)
\* C11 as claimed: an answer set holding HCMcomp = "severe-LVOT[ge]50-or-EF<50%"
\* or DCM_EF = "<30%/NYHA III-IV", the values spelt as the written rule table
\* spells them, returns class IV.
C11_CardiomyopathyTableSpelling ==
    (Returned /\ fn = "Cardiomyopathy"
     /\ (Get(arg, "HCMcomp") = "severe-LVOT[ge]50-or-EF<50%"
         \/ Get(arg, "DCM_EF") = "<30%/NYHA III-IV")) =>
        Out.mwho = "IV"

\* C11 as amended: the same with the values the code tests and its form
\* offers, HCMcomp = "severe-LVOT>=50-or-EF<50%" (ASCII >=) and
\* DCM_EF = "<30%/NYHAIII-IV" (no space): either one yields a IV candidate, so
\* an answer set holding either returns class IV.
C11_CardiomyopathyClassIV ==
    (Returned /\ fn = "Cardiomyopathy"
     /\ (Get(arg, "HCMcomp") = "severe-LVOT>=50-or-EF<50%"
         \/ Get(arg, "DCM_EF") = "<30%/NYHAIII-IV")) =>
        Out.mwho = "IV"

\* the DCM value with lower candidates from the other three questions
C11_Witness ==
    /\ Returned
    /\ fn = "Cardiomyopathy"
    /\ Get(arg, "HCMgenoPheno") = "+/[-]"
    /\ Get(arg, "HCMcomp") = "arrhythmic/moderate-hemodynamic"
    /\ Get(arg, "DCM_EF") = "<30%/NYHAIII-IV"
    /\ Get(arg, "ARVC") = "low-risk"
    /\ Out.mwho = "IV"

\* C12: for every answer set over HCMgenoPheno, HCMcomp, DCM_EF, ARVC the class
\* is the highest of the classes of all matching guards ("+/[-]" alone gives I,
\* "+/[-]" with DCM_EF "<30%/NYHAIII-IV" gives IV), null when no guard
\* matches, and the notes are empty.
C12_CardiomyopathyReduces ==
    (Returned /\ fn = "Cardiomyopathy") =>
        /\ Out.mwho = RefHighest(SatisfiedClasses("Cardiomyopathy", arg))
        /\ Out.notes = <<>>
        /\ (DOMAIN arg = {"HCMgenoPheno"} /\ arg["HCMgenoPheno"] = "+/[-]") => Out.mwho = "I"
        /\ (DOMAIN arg = {"HCMgenoPheno", "DCM_EF"} /\ arg["HCMgenoPheno"] = "+/[-]"
            /\ arg["DCM_EF"] = "<30%/NYHAIII-IV") => Out.mwho = "IV"

\* a IV candidate pushed before a lower one
C12_Witness ==
    /\ Returned
    /\ fn = "Cardiomyopathy"
    /\ DOMAIN arg = {"HCMgenoPheno", "HCMcomp", "ARVC"}
    /\ arg["HCMgenoPheno"] = "+/[-]"
    /\ arg["HCMcomp"] = "severe-LVOT>=50-or-EF<50%"
    /\ arg["ARVC"] = "low-risk"
    /\ Out = [mwho |-> "IV", notes |-> <<>>]

(***************************************************************************)
(* Properties of computeValvular, computeAortopathy, computeArrhythmia and *)
(* computeCoronaryOther, under SpecRules.                                  *)
(***************************************************************************)
PsNoted(a) == Get(a, "PS_sev") = "moderate/severe"
MechNoted(a) == Get(a, "MechanicalValve") \in {"well-controlled", "unstable/complicated"}

\* C14: computeValvular returns the highest class of the table rows its answers
\* match; its notes hold exactly one note when PS_sev = "moderate/severe" and
\* exactly one when MechanicalValve is "well-controlled" or
\* "unstable/complicated", the PS note first, and no other notes.
C14_ValvularTableAndNotes ==
    (Returned /\ fn = "Valvular") =>
        /\ Out.mwho = RefHighest(SatisfiedClasses("Valvular", arg))
        /\ Len(Out.notes) = (IF PsNoted(arg) THEN 1 ELSE 0) + (IF MechNoted(arg) THEN 1 ELSE 0)
        /\ PsNoted(arg) =>
             Out.notes[1] = "Moderate/severe PS -- confirm gradients and RV pressure"
        /\ Get(arg, "MechanicalValve") = "well-controlled" =>
             Out.notes[Len(Out.notes)] = "Mechanical valve on stable anticoagulation"
        /\ Get(arg, "MechanicalValve") = "unstable/complicated" =>
             Out.notes[Len(Out.notes)] =
                 "Mechanical valve with complications/unstable anticoagulation"

\* both notes, under a class-IV stenosis
C14_Witness ==
    /\ Returned
    /\ fn = "Valvular"
    /\ Get(arg, "PS_sev") = "moderate/severe"
    /\ Get(arg, "MS") = "severe"
    /\ Get(arg, "MechanicalValve") = "unstable/complicated"
    /\ Out = [mwho |-> "IV",
              notes |-> <<"Moderate/severe PS -- confirm gradients and RV pressure",
                          "Mechanical valve with complications/unstable anticoagulation">>]

\* the class-IV keys of Aortopathy with their notes, in the order of the code
AortopathyIV ==
    << <<"MarfanGt45", "Marfan/HTAD aortic diameter >45 mm">>,
       <<"BAVGt50", "BAV aortic diameter >50 mm">>,
       <<"TurnerASIgt25", "Turner ASI >25 mm^2/m">>,
       <<"SevereRecoA_or_vEDS_or_PriorDissectionGrowing",
         "Severe (re)CoA / vEDS / prior dissection with growth">> >>

\* the notes of the keys of AortopathyIV[i..] answered yes
RECURSIVE NotesFrom(_, _)
NotesFrom(a, i) ==
    IF i > Len(AortopathyIV) THEN <<>>
    ELSE (IF Get(a, AortopathyIV[i][1]) = "yes" THEN <<AortopathyIV[i][2]>> ELSE <<>>)
         \o NotesFrom(a, i + 1)

\* C16: computeAortopathy returns the highest class of the table rows its answers
\* match; the class is IV exactly when the notes are non-empty; the notes are
\* one per key answered yes among MarfanGt45, BAVGt50, TurnerASIgt25,
\* SevereRecoA_or_vEDS_or_PriorDissectionGrowing, in that order; and
\* PriorDissectionStable = "yes" gives III without a note.
C16_AortopathyNotesTrackIV ==
    (Returned /\ fn = "Aortopathy") =>
        /\ Out.mwho = RefHighest(SatisfiedClasses("Aortopathy", arg))
        /\ (Out.mwho = "IV") <=> (Out.notes # <<>>)
        /\ Out.notes = NotesFrom(arg, 1)
        /\ (DOMAIN arg = {"PriorDissectionStable"} /\ arg["PriorDissectionStable"] = "yes")
             => Out = [mwho |-> "III", notes |-> <<>>]

\* two of the class-IV keys, out of the order they are answered in, with the
\* stable dissection
C16_Witness ==
    /\ Returned
    /\ fn = "Aortopathy"
    /\ Get(arg, "TurnerASIgt25") = "yes"
    /\ Get(arg, "MarfanGt45") = "yes"
    /\ Get(arg, "BAVGt50") = "no"
    /\ Get(arg, "PriorDissectionStable") = "yes"
    /\ Out = [mwho |-> "IV",
              notes |-> <<"Marfan/HTAD aortic diameter >45 mm", "Turner ASI >25 mm^2/m">>]

\* a stable prior dissection alone
C16_StableWitness ==
    /\ Returned
    /\ fn = "Aortopathy"
    /\ DOMAIN arg = {"PriorDissectionStable"}
    /\ arg["PriorDissectionStable"] = "yes"
    /\ Out = [mwho |-> "III", notes |-> <<>>]

\* C17: computeArrhythmia returns the highest of I for IsolatedEctopy, II for
\* SVTorPacemaker, II-III for InheritedLowRisk, III for InheritedHighRisk and
\* III for SustainedVT over the keys answered yes; it never returns IV and its
\* notes are empty.
C17_ArrhythmiaNeverIV ==
    (Returned /\ fn = "Arrhythmia") =>
        /\ Out.mwho = RefHighest(SatisfiedClasses("Arrhythmia", arg))
        /\ Out.mwho # "IV"
        /\ Out.notes = <<>>

C17_Witness ==
    /\ Returned
    /\ fn = "Arrhythmia"
    /\ Get(arg, "SustainedVT") = "yes"
    /\ Get(arg, "InheritedHighRisk") = "yes"
    /\ Get(arg, "IsolatedEctopy") = "yes"
    /\ Out = [mwho |-> "III", notes |-> <<>>]

CoronaryKeys == {"SCAD", "PriorIschaemia", "PriorAPOhosp", "CancerTherapyCVtox"}

\* C18: computeCoronaryOther returns III when at least one of SCAD,
\* PriorIschaemia, PriorAPOhosp, CancerTherapyCVtox is "yes" and null
\* otherwise; the notes are empty.
C18_CoronaryIIIOrNull ==
    (Returned /\ fn = "Coronary/Other") =>
        /\ Out.mwho = (IF \E k \in CoronaryKeys : Get(arg, k) = "yes" THEN "III" ELSE Null)
        /\ Out.notes = <<>>

\* only the last key tested is yes
C18_Witness ==
    /\ Returned
    /\ fn = "Coronary/Other"
    /\ DOMAIN arg = CoronaryKeys
    /\ arg["CancerTherapyCVtox"] = "yes"
    /\ \A k \in CoronaryKeys \ {"CancerTherapyCVtox"} : arg[k] = "no"
    /\ Out = [mwho |-> "III", notes |-> <<>>]

\* all four answered no
C18_NullWitness ==
    /\ Returned
    /\ fn = "Coronary/Other"
    /\ DOMAIN arg = CoronaryKeys
    /\ \A k \in CoronaryKeys : arg[k] = "no"
    /\ Out = [mwho |-> Null, notes |-> <<>>]

\* C19: in every one of the seven groups the empty answer set returns the null
\* class and an empty list of notes.
C19_EmptyAnswersNull ==
    (Returned /\ arg = EmptyAnswers) => Out = [mwho |-> Null, notes |-> <<>>]

C19_Witness ==
    /\ Returned
    /\ fn = "Cardiomyopathy"
    /\ arg = EmptyAnswers
    /\ Out = [mwho |-> Null, notes |-> <<>>]

(***************************************************************************)
(* Properties that span the first and the second draft, under SpecDrafts.  *)
(***************************************************************************)
\* the Answers object a without its key k
Without(a, k) == [x \in DOMAIN a \ {k} |-> a[x]]

NoSignificantMR(a) == Get(a, "MR_sev") \in {"none/trace", "mild"}

\* the class computeValvular owes to an answer set with MVP_present = "yes":
\* the highest of the other rows' classes and, when MR_sev is none/trace or
\* mild, I
MvpClass(a) ==
    RefHighest(SatisfiedClasses("Valvular", Without(a, "MVP_present"))
               \cup (IF NoSignificantMR(a) THEN {"I"} ELSE {}))

MvpNote == "MVP present but MR severity unknown -- cannot assume class I"

NotMvpNote(n) == n # MvpNote

\* C13 as claimed: in both drafts MVP_present = "yes" adds a class-I candidate
\* exactly when MR_sev is "none/trace" or "mild" and otherwise adds nothing, no
\* class and no note; MVP_present = "yes" with MR_sev = "moderate" alone gives
\* II-III.
C13_MvpAddsNothingElse ==
    (Returned /\ fn \in {"Valvular", Valvular2} /\ Get(arg, "MVP_present") = "yes") =>
        /\ Out.mwho = MvpClass(arg)
        /\ Out.notes = Call(fn, Without(arg, "MVP_present")).notes
        /\ (DOMAIN arg = {"MVP_present", "MR_sev"} /\ arg["MR_sev"] = "moderate")
             => Out.mwho = "II-III"

\* C13 as amended: in both drafts MVP_present = "yes" adds a class-I candidate
\* exactly when MR_sev is "none/trace" or "mild" and otherwise no candidate;
\* with MR_sev = "moderate" alone the class is II-III.  In the first draft it
\* adds no note; in the second it adds the note "MVP present but MR severity
\* unknown" exactly when MR_sev is unanswered or "unknown", and no other note.
C13_MvpClassOnlyWithMildMR ==
    (Returned /\ fn \in {"Valvular", Valvular2} /\ Get(arg, "MVP_present") = "yes") =>
        /\ Out.mwho = MvpClass(arg)
        /\ SelectSeq(Out.notes, NotMvpNote) = Call(fn, Without(arg, "MVP_present")).notes
        /\ (\E i \in DOMAIN Out.notes : Out.notes[i] = MvpNote)
             <=> (fn = Valvular2 /\ Get(arg, "MR_sev") \in {Undefined, "unknown"})
        /\ (DOMAIN arg = {"MVP_present", "MR_sev"} /\ arg["MR_sev"] = "moderate")
             => Out.mwho = "II-III"

\* the scenario, in the second draft
C13_Witness ==
    /\ Returned
    /\ fn = Valvular2
    /\ DOMAIN arg = {"MVP_present", "MR_sev"}
    /\ arg["MVP_present"] = "yes"
    /\ arg["MR_sev"] = "moderate"
    /\ Out = [mwho |-> "II-III", notes |-> <<>>]

\* the second draft's note, between the PS note and the mechanical-valve note
C13_NoteWitness ==
    /\ Returned
    /\ fn = Valvular2
    /\ DOMAIN arg = {"MVP_present", "PS_sev", "MechanicalValve"}
    /\ arg["MVP_present"] = "yes"
    /\ Len(Out.notes) = 3
    /\ Out.notes[2] = MvpNote

\* the class-I candidate, in the first draft
C13_ClassIWitness ==
    /\ Returned
    /\ fn = "Valvular"
    /\ DOMAIN arg = {"MVP_present", "MR_sev"}
    /\ arg["MVP_present"] = "yes"
    /\ arg["MR_sev"] = "mild"
    /\ Out = [mwho |-> "I", notes |-> <<>>]

\* the rows the second draft's computeCongenital matches: those of the table,
\* with SystemicRV spelt "good/mildly[v]" and "moderate/severely[v]"
SatisfiedCongenital2(a) ==
    SatisfiedClasses("Congenital", Without(a, "SystemicRV"))
    \cup Crit(a, "SystemicRV", "good/mildly[v]", "III")
    \cup Crit(a, "SystemicRV", "moderate/severely[v]", "IV")

C15_OrderWitness ==
    /\ Returned
    /\ fn = "Congenital"
    /\ Get(arg, "SystemicRV") = "moderate/severely-decreased"
    /\ Get(arg, "Cyanotic") = "unrepaired-non-eisenmenger"
    /\ Out.mwho = "IV"

\* the second draft's spelling
C15_Draft2Witness ==
    /\ Returned
    /\ fn = Congenital2
    /\ Get(arg, "SystemicRV") = "moderate/severely[v]"
    /\ Get(arg, "SimpleRepaired") = "yes"
    /\ Out.mwho = "IV"


\* the keys the rule functions compare against "yes" only
YesKeys ==
    {"PAH", "MVP_present",
     "SimpleRepaired", "ASDVSDunoperated", "ToFgood", "TGAarterialSwitchGood",
     "AVSDrepairedGood",
     "NonHTADlt40", "TurnerNoCVfeatures", "HTADnoDilation_or_BAVlt45_or_repairedCoA",
     "Marfan40to45", "BAV45to50", "TurnerASI20to25", "OtherAortaLt50", "MarfanGt45",
     "BAVGt50", "TurnerASIgt25", "SevereRecoA_or_vEDS_or_PriorDissectionGrowing",
     "PriorDissectionStable",
     "IsolatedEctopy", "SVTorPacemaker", "InheritedLowRisk", "InheritedHighRisk",
     "SustainedVT",
     "SCAD", "PriorIschaemia", "PriorAPOhosp", "CancerTherapyCVtox"}

\* the values the guards of function f compare key k against; none for a key
\* the function does not inspect
GuardValues(f, k) ==
    CASE k \in YesKeys -> {"yes"}
      [] k = "LVEF" -> {"<30%", "30-45%", ">45%"}
      [] k = "NYHA" -> {"III/IV"}
      [] k = "RVfunction" -> {"significant"}
      [] k = "PPCM" -> {"> mild residual", "[le] mild residual"}
      [] k = "HCMgenoPheno" -> {"+/[-]"}
      [] k = "HCMcomp" -> {"arrhythmic/moderate-hemodynamic", "severe-LVOT>=50-or-EF<50%"}
      [] k = "DCM_EF" -> {">45%", "30-45%", "<30%/NYHAIII-IV"}
      [] k = "ARVC" -> {"low-risk", "moderate/severe"}
      [] k = "PS_sev" -> {"mild", "moderate/severe"}
      [] k = "MS" -> {"moderate", "severe"}
      [] k = "AS" -> {"severe-asymptomatic", "severe-symptomatic"}
      [] k = "AR_sev" -> {"severe", "moderate"}
      [] k = "MR_sev" -> {"severe", "moderate", "none/trace", "mild"}
                         \cup (IF f = Valvular2 THEN {"unknown"} ELSE {})
      [] k = "MechanicalValve" -> {"well-controlled", "unstable/complicated"}
      [] k = "Ebstein" -> {"uncomplicated", "complicated"}
      [] k = "SystemicRV" -> IF f = Congenital2
                             THEN {"good/mildly[v]", "moderate/severely[v]"}
                             ELSE {"good/mildly-decreased", "moderate/severely-decreased"}
      [] k = "Fontan" -> {"uncomplicated", "complicated"}
      [] k = "Cyanotic" -> {"unrepaired-non-eisenmenger", "eisenmenger"}
      [] OTHER -> {}

\* the keys of a whose value no guard of f tests
Unmatched(f, a) == {k \in DOMAIN a : a[k] \notin GuardValues(f, k)}

\* C20 as claimed: in every function of either draft, an answer whose value no
\* guard tests, under an inspected key or under a key the function does not
\* inspect, changes nothing: the class and the notes are those of the answer
\* set without that answer.
C20_UnmatchedAnswerChangesNothing ==
    Returned => \A k \in Unmatched(fn, arg) : Out = Call(fn, Without(arg, k))

\* C20 as amended: such an answer never changes the class, and never changes
\* the notes of the first draft's functions or of the second draft's
\* computeCongenital.  In the second draft's computeValvular it changes the
\* notes in one case only: with MVP_present = "yes", an MR_sev value that no
\* guard tests removes the note "MVP present but MR severity unknown" that the
\* answer set without MR_sev carries.
C20_UnmatchedAnswerKeepsClass ==
    Returned => \A k \in Unmatched(fn, arg) :
        LET without == Call(fn, Without(arg, k))
        IN  /\ Out.mwho = without.mwho
            /\ IF fn = Valvular2 /\ k = "MR_sev" /\ Get(arg, "MVP_present") = "yes"
               THEN Out.notes = SelectSeq(without.notes, NotMvpNote)
                    /\ \E i \in DOMAIN without.notes : without.notes[i] = MvpNote
               ELSE Out.notes = without.notes

\* an untested value and an uninspected key beside two matching answers
C20_Witness ==
    /\ Returned
    /\ fn = "Valvular"
    /\ DOMAIN arg = {"PS_sev", "MS", "AS", "Comment"}
    /\ arg["PS_sev"] = "moderate/severe"
    /\ arg["MS"] = "severe"
    /\ arg["AS"] = "none/mild/moderate"
    /\ Unmatched(fn, arg) = {"AS", "Comment"}
    /\ Out = Call(fn, Without(arg, "AS"))
    /\ Out = Call(fn, Without(arg, "Comment"))
    /\ Out.mwho = "IV"
    /\ Len(Out.notes) = 1

\* the second draft's exception
C20_Draft2Witness ==
    /\ Returned
    /\ fn = Valvular2
    /\ DOMAIN arg = {"MVP_present", "MR_sev"}
    /\ arg["MVP_present"] = "yes"
    /\ "MR_sev" \in Unmatched(fn, arg)
    /\ Out.notes = <<>>
    /\ Call(fn, Without(arg, "MR_sev")).notes = <<MvpNote>>

(***************************************************************************)
(* Properties of the App component.                                        *)
(***************************************************************************)
\* C21, in the first draft (specification Spec): a step that selects a group,
\* another one or the same again, leaves the answer map empty and the
\* displayed result (null, []).
C21_SelectionResetsAnswers ==
    [][(\E g \in Range(GROUPS) : SelectGroup(g))
         => (answers' = EmptyAnswers /\ computed' = Result(Null, <<>>))]_vars

\* C21, in the second draft (specification SpecApp2): a step that selects a
\* group, another one or the same again, leaves the answer map empty and the
\* displayed result (null, []).
C21_SelectionResetsAnswers2 ==
    [][(\E g \in Range(GROUPS) : SelectGroup2(g))
         => (answers' = EmptyAnswers /\ computed' = Result(Null, <<>>))]_vars


\* C22: in every reachable state of the App the displayed class and notes are
\* the selected group's rule function applied to the current answer map, and
\* (null, []) when no group is selected.
C22_ComputedIsDerived ==
    /\ group = Null => computed = Result(Null, <<>>)
    /\ group = "Ventricular/PH/PPCM" => computed = computeVentricularPH(answers)
    /\ group = "Cardiomyopathy" => computed = computeCardiomyopathy(answers)
    /\ group = "Valvular" => computed = computeValvular(answers)
    /\ group = "Congenital" => computed = computeCongenital(answers)
    /\ group = "Aortopathy" => computed = computeAortopathy(answers)
    /\ group = "Arrhythmia" => computed = computeArrhythmia(answers)
    /\ group = "Coronary/Other" => computed = computeCoronaryOther(answers)
    /\ group \in {Null} \cup Range(GROUPS)

\* an answer changed after another had raised the class
C22_Witness ==
    /\ group = "Valvular"
    /\ DOMAIN answers = {"PS_sev", "MS"}
    /\ answers["PS_sev"] = "moderate/severe"
    /\ answers["MS"] = "none/mild"
    /\ computed = [mwho |-> "II-III",
                   notes |-> <<"Moderate/severe PS -- confirm gradients and RV pressure">>]


GuidanceFields == {"maternal", "fetal", "care", "delivery"}

\* C23: in every reachable state of the App, every key meaningByMWHO is indexed
\* with, in the summary and in the result panel, is one of the five classes,
\* never null, and each of the five classes has a record with the four fields
\* maternal, fetal, care, delivery.
C23_GuidanceNeverIndexedWithNull ==
    LET keys == summaryIndexed(computed.mwho) \o panelIndexed(group, computed.mwho)
    IN  /\ \A i \in DOMAIN keys : ~Falsy(keys[i]) /\ keys[i] \in DOMAIN meaningByMWHO
        /\ Falsy(computed.mwho) => keys = <<>>
        /\ \A c \in MWHO : DOMAIN meaningByMWHO[c] = GuidanceFields

\* the table indexed five times, with class III
C23_Witness ==
    /\ group = "Arrhythmia"
    /\ Get(answers, "SustainedVT") = "yes"
    /\ summaryIndexed(computed.mwho) \o panelIndexed(group, computed.mwho)
         = <<"III", "III", "III", "III", "III">>

\* nothing indexed while a group is selected and the class is null
C23_NullWitness ==
    /\ group = "Arrhythmia"
    /\ answers = EmptyAnswers
    /\ computed.mwho = Null
    /\ summaryIndexed(computed.mwho) \o panelIndexed(group, computed.mwho) = <<>>


(***************************************************************************)
(* Properties of the summary, under SpecDrafts: the summary of each        *)
(* returned result, by the draft the result comes from.                    *)
(***************************************************************************)
\* the group a rule function belongs to
GroupOf(f) == CASE f = Valvular2 -> "Valvular" [] f = Congenital2 -> "Congenital" [] OTHER -> f

SummaryOfCall ==
    IF fn \in {Valvular2, Congenital2} THEN summary2(GroupOf(fn), Out)
    ELSE summary(GroupOf(fn), Out)

\* the notes with "; " between each two
Listed(notes) ==
    [j \in 1..(2 * Len(notes) - 1) |-> IF j % 2 = 1 THEN notes[(j + 1) \div 2] ELSE "; "]

\* the words and line breaks of the summary of a null class without notes: no
\* result, four empty fields
BlankSummary(g) ==
    <<"Group:", g, "\n", "Result:", "-",
      "\n", "Maternal risk:", "\n", "Fetal risk:", "\n", "Care level:",
      "\n", "Delivery guidance:">>

\* the words and line breaks of a text
Inked(t) == SelectSeq(t, LAMBDA p : p \notin Blank \ {"\n"})

\* C24: the summary has a "Flags:" line exactly when the notes are non-empty;
\* the line is the last one and lists every note in the notes' order, joined
\* by "; "; with a null class the result is shown as "-" and the four guidance
\* fields are empty.
C24_SummaryFlags ==
    Returned =>
        LET s == SummaryOfCall
            at == {i \in DOMAIN s : s[i] = "Flags:"}
        IN  /\ (at # {}) <=> (Out.notes # <<>>)
            /\ Cardinality(at) <= 1
            /\ \A i \in at : /\ s[i - 1] = "\n"
                             /\ s[i + 1] = " "
                             /\ SubSeq(s, i + 2, Len(s)) = Listed(Out.notes)
            /\ Out.mwho = Null =>
                 Inked(s) = BlankSummary(GroupOf(fn))
                            \o (IF Out.notes = <<>> THEN <<>>
                                ELSE <<"\n", "Flags:">> \o Listed(Out.notes))

\* two notes under a class
C24_Witness ==
    /\ Returned
    /\ fn = "Valvular"
    /\ Out.mwho = "III"
    /\ Len(Out.notes) = 2
    /\ SubSeq(SummaryOfCall, Len(SummaryOfCall) - 5, Len(SummaryOfCall))
         = <<"\n", "Flags:", " ",
             "Moderate/severe PS -- confirm gradients and RV pressure", "; ",
             "Mechanical valve on stable anticoagulation">>

\* the second draft: a note under a null class
C24_NullWitness ==
    /\ Returned
    /\ fn = Valvular2
    /\ Out = [mwho |-> Null, notes |-> <<MvpNote>>]
    /\ SummaryOfCall =
         <<"Group:", " ", "Valvular", "\n", "Result:", " ", "-",
           "\n", "Maternal risk:", " ", "", "\n", "Fetal risk:", " ", "",
           "\n", "Care level:", " ", "", "\n", "Delivery guidance:", " ", "",
           "\n", "Flags:", " ", MvpNote>>

\* no notes and no class: the summary ends after "Delivery guidance:"
C24_TrimWitness ==
    /\ Returned
    /\ fn = "Arrhythmia"
    /\ Out = [mwho |-> Null, notes |-> <<>>]
    /\ SummaryOfCall = <<"Group:", " ", "Arrhythmia", "\n", "Result:", " ", "-",
                         "\n", "Maternal risk:", " ", "", "\n", "Fetal risk:", " ", "",
                         "\n", "Care level:", " ", "", "\n", "Delivery guidance:">>


\* ---------------------------------------------------------------------------
\* The first draft's App with a group selected, recording each set(k, v)
\* call (lines 485-486) in the order the radio buttons were clicked.

MaxSets == 3

InitOrder ==
    /\ ORDER = ORDER0
    /\ group \in Range(GROUPS)
    /\ answers = EmptyAnswers
    /\ computed = Compute(group, EmptyAnswers)
    /\ log = <<>>
    /\ CallIdle
    /\ ReducerIdle

NextOrder ==
    \E i \in 1..Len(GroupQuestions(group)) :
        \E v \in Range(GroupQuestions(group)[i].options) :
            /\ Len(log) < MaxSets
            /\ set(GroupQuestions(group)[i].name, v)
            /\ log' = Append(log, <<GroupQuestions(group)[i].name, v>>)

SpecOrder == InitOrder /\ [][NextOrder]_vars

\* the keys set in a history, and the value of the last call for a key
KeysOf(h) == {h[i][1] : i \in DOMAIN h}
LastIndex(h, k) == CHOOSE i \in DOMAIN h : h[i][1] = k /\ \A j \in DOMAIN h : h[j][1] = k => j <= i
LastWins(h) == [k \in KeysOf(h) |-> h[LastIndex(h, k)][2]]

\* C25: the answer map, the class and the notes (in their order) are determined
\* by the last value set for each key alone: whatever the order of the set
\* calls, the map is the last-value map and the result is the selected group's
\* rule function on it, so two histories with the same last values agree.
C25_LastValuesDecide ==
    /\ answers = LastWins(log)
    /\ computed = Compute(group, LastWins(log))

\* a key was set twice with different values, and the keys were not set in
\* the order the questions are listed, with a class and notes resulting
C25_Witness ==
    /\ \E i, j \in DOMAIN log : i < j /\ log[i][1] = log[j][1] /\ log[i][2] # log[j][2]
    /\ group = "Valvular"
    /\ Len(log) = MaxSets
    /\ log[1][1] = "MechanicalValve" /\ log[2][1] = "PS_sev"
    /\ Len(computed.notes) = 2


\* ---------------------------------------------------------------------------
\* s can be had from t by leaving entries out, the rest keeping their order
RECURSIVE IsSubList(_, _)
IsSubList(s, t) ==
    IF s = <<>> THEN TRUE
    ELSE IF t = <<>> THEN FALSE
    ELSE IF Head(s) = Head(t) THEN IsSubList(Tail(s), Tail(t))
    ELSE IsSubList(s, Tail(t))

FlatGroups == Range(GROUPS) \ {"Ventricular/PH/PPCM"}

\* C26: for the six flat groups, answering a question that was unanswered never
\* lowers the class (null < I < II < II-III < III < IV), and the notes before
\* the answer are a sub-list of the notes after it.
C26_FlatGroupsMonotone ==
    (Returned /\ fn \in FlatGroups) =>
        \A k \in DOMAIN arg :
            LET before == Compute(fn, Without(arg, k))
            IN  /\ Rank(before.mwho) <= Rank(Out.mwho)
                /\ IsSubList(before.notes, Out.notes)

\* a class and a note were already there, and the new answer raised the class
\* and added a note after the one that was there
C26_Witness ==
    /\ Returned
    /\ fn = "Valvular"
    /\ \E k \in DOMAIN arg :
           LET before == Compute(fn, Without(arg, k))
           IN  /\ before.mwho = "II-III"
               /\ Len(before.notes) = 1
               /\ Out.mwho = "III"
               /\ Len(Out.notes) = 2
               /\ Out.notes[1] = before.notes[1]

\* an answer that matches no guard leaves a class and its notes as they were
C26_UnchangedWitness ==
    /\ Returned
    /\ fn = "Aortopathy"
    /\ Out.mwho = "IV"
    /\ Out.notes # <<>>
    /\ \E k \in DOMAIN arg : Compute(fn, Without(arg, k)) = Out


\* C27: in Ventricular/PH/PPCM, answering a question that was unanswered never
\* lowers the class: the class of the answers without any one key is at or
\* below the class of the answers, in the order null < I < II < II-III < III < IV.
C27_VentricularMonotone ==
    (Returned /\ fn = "Ventricular/PH/PPCM") =>
        \A k \in DOMAIN arg :
            Rank(computeVentricularPH(Without(arg, k)).mwho) <= Rank(Out.mwho)

\* the class is lowered only by RVfunction = "significant" answered on top
\* of LVEF > 45% and a PPCM answer (line 99 returning before lines 100-101)
C27_OnlyRvBeforePpcmLowers ==
    (Returned /\ fn = "Ventricular/PH/PPCM") =>
        \A k \in DOMAIN arg :
            Rank(computeVentricularPH(Without(arg, k)).mwho) > Rank(Out.mwho) =>
                /\ k = "RVfunction"
                /\ arg[k] = "significant"
                /\ Get(arg, "LVEF") = ">45%"
                /\ Get(arg, "PPCM") \in {"> mild residual", "[le] mild residual"}
                /\ Out.mwho = "II-III"


\* ---------------------------------------------------------------------------
\* Specification SpecThree: for a group and an Answers object of at most
\* MaxCompared keys drawn from the questions one of the drafts renders for the
\* group, the group's rule function of the first, the second and the third
\* draft is called on it, in turn.

MaxCompared == 4

DraftQuestions(d, g) ==
    CASE d = 1 -> GroupQuestions(g)
      [] d = 2 -> GroupQuestions2(g)
      [] d = 3 -> GroupQuestions3(g)

InitThree ==
    /\ ORDER = ORDER0
    /\ AppIdle
    /\ ReducerIdle
    /\ fn \in Range(GROUPS)
    /\ \E d \in 1..3 : \E S \in KeySets(DraftQuestions(d, fn), MaxCompared) :
           arg \in AnswersOn(DraftQuestions(d, fn), S)
    /\ ret = <<>>

\* the next draft's call returns: ret collects the drafts' results
Returns(d, r) ==
    /\ Len(ret) = d - 1
    /\ ret' = Append(ret, r)
    /\ UNCHANGED <<ORDER, group, answers, computed, fn, arg, hcIn, hcOut, log>>

CallDraft1 == Returns(1, Compute(fn, arg))
CallDraft2 == Returns(2, Compute2(fn, arg))
CallDraft3 == Returns(3, Compute3(fn, arg))

NextThree == CallDraft1 \/ CallDraft2 \/ CallDraft3

SpecThree == InitThree /\ [][NextThree]_vars

\* C28: a note never appears without a class, in each of the three drafts: for
\* every group and answer set, a non-empty notes list comes with a non-null class.
C28_NoNoteWithoutClass ==
    \A d \in DOMAIN ret : ret[d].notes # <<>> => ret[d].mwho # Null

\* C28 (amended): in the first and the third draft a non-empty notes list comes
\* with a non-null class; in the second draft it does too, except that
\* computeValvular returns the null class with the one note that MVP is present
\* but the MR severity unknown.
C28_NoNoteWithoutClassButMvp ==
    \A d \in DOMAIN ret :
        (ret[d].notes # <<>> /\ ret[d].mwho = Null) =>
            /\ d = 2
            /\ fn = "Valvular"
            /\ ret[d].notes = <<MvpNote>>
            /\ Get(arg, "MVP_present") = "yes"
            /\ Get(arg, "MR_sev") \in {Undefined, "unknown"}

\* all three drafts returned notes, each with a class
C28_Witness ==
    /\ Len(ret) = 3
    /\ \A d \in DOMAIN ret : ret[d].notes # <<>> /\ ret[d].mwho # Null

\* the second draft's exception, where the first draft returns no note
C28_MvpWitness ==
    /\ Len(ret) = 3
    /\ ret[1] = Result(Null, <<>>)
    /\ ret[2] = Result(Null, <<MvpNote>>)


\* the answers are built from the first draft's question keys and option values
FromFirstDraft(g, a) ==
    \A k \in DOMAIN a :
        \E i \in 1..Len(GroupQuestions(g)) :
            GroupQuestions(g)[i].name = k /\ a[k] \in Range(GroupQuestions(g)[i].options)

\* C29: the three drafts of the rule functions agree on the class: for every
\* group but Valvular and every answer set built from the first draft's
\* question keys and option values, the first, second and third draft of the
\* group's function return the same class.
C29_DraftsAgreeOnClass ==
    (Len(ret) = 3 /\ fn # "Valvular" /\ FromFirstDraft(fn, arg)) =>
        (ret[1].mwho = ret[2].mwho /\ ret[2].mwho = ret[3].mwho)

\* the drafts disagree only in Congenital, and only when SystemicRV holds one
\* of the first draft's two values that the later drafts spell otherwise
C29_DraftsAgreeButSystemicRV ==
    (Len(ret) = 3 /\ fn # "Valvular" /\ FromFirstDraft(fn, arg)) =>
        \/ ret[1].mwho = ret[2].mwho /\ ret[2].mwho = ret[3].mwho
        \/ /\ fn = "Congenital"
           /\ Get(arg, "SystemicRV") \in {"good/mildly-decreased", "moderate/severely-decreased"}
           /\ ret[2].mwho = ret[3].mwho
           /\ Rank(ret[2].mwho) < Rank(ret[1].mwho)


\* ---------------------------------------------------------------------------
\* every question of the selected group is answered (with an offered option:
\* the radio buttons offer nothing else)
AllAnswered ==
    /\ ~Falsy(group)
    /\ \A i \in 1..Len(GroupQuestions(group)) : GroupQuestions(group)[i].name \in DOMAIN answers

\* C30: a null class means answers are missing: in any reachable state where
\* every question of the selected group is answered with an offered option, the
\* computed class is non-null.
C30_AllAnsweredGivesClass == AllAnswered => computed.mwho # Null

\* C30 (amended): a null class means that the answers meet no criterion of the
\* selected group: the computed class is null exactly when no guard of the
\* group's rule function is satisfied, which can be so with every question
\* answered.
C30_NullMeansNoCriterionMet ==
    ~Falsy(group) => (computed.mwho = Null <=> SatisfiedClasses(group, answers) = {})

\* Coronary/Other with all four questions answered "no": the class is null
C30_Witness ==
    /\ group = "Coronary/Other"
    /\ AllAnswered
    /\ \A k \in DOMAIN answers : answers[k] = "no"
    /\ computed.mwho = Null

\* every question answered, and a class computed
C30_ClassWitness ==
    /\ AllAnswered
    /\ group = "Cardiomyopathy"
    /\ computed.mwho = "II-III"

====
